---- MODULE Spec2Model ----
(***************************************************************************)
(* Model of the weather CLI's location resolution engine:                  *)
(*   weather/location_resolver.py  LocationResolver                        *)
(*   weather/location.py           LocationService                         *)
(*   weather/base_service.py       BaseAPIService                          *)
(*   weather/config.py             Config                                  *)
(*   weather/types.py              Location                                *)
(*   weather/cli.py                main                                    *)
(*   weather/service.py            WeatherService                          *)
(*   weather/weather_art.py        WeatherArt                              *)
(*                                                                         *)
(* Python values are tagged records.  A str is a string, a character the   *)
(* string cannot hold written <U+code point>.  A float is the binary64     *)
(* value, written by the digits of its repr().  A dict holds its values    *)
(* by key and its keys in insertion order.  A call's outcome is Ret(v) or  *)
(* Raise(e), e an exception class name, which also stands for the          *)
(* exception's message; try/except is modelled by Catch.                   *)
(***************************************************************************)
EXTENDS Integers, Sequences, FiniteSets, TLC

\* ------------------------------------------------------- calls and exceptions

\* The outcome of a call: it returned v, or it raised an exception of class e
Ret(v) == [k |-> "ret", v |-> v]
Raise(e) == [k |-> "raise", e |-> e]

\* An exception of class e that carries the response of the request it
\* failed on (requests' e.response)
RaiseWith(e, response) == [k |-> "raise", e |-> e, response |-> response]

\* The classes of exceptions are named as they are defined: the builtins,
\* PyYAML's, requests' and click's.  Where two modules define the same name
\* the module is written before it: requests.ConnectionError and
\* builtins.ConnectionError, requests.HTTPError and urllib3.HTTPError,
\* requests.JSONDecodeError and json.JSONDecodeError.  IOError and
\* EnvironmentError are other names of OSError.
ClassNamed(name) ==
    IF name \in {"IOError", "EnvironmentError"} THEN "OSError" ELSE name

\* cls.__bases__ of an exception class: the classes it is derived from
\* directly (BaseException: none).  response.json() raises
\* json.JSONDecodeError under a requests before 2.27 and
\* requests.JSONDecodeError, which has two bases, from 2.27 on.
Bases(e) ==
    CASE e = "BaseException" -> {}
      [] e \in {"BaseExceptionGroup", "Exception", "GeneratorExit",
                "KeyboardInterrupt", "SystemExit"} -> {"BaseException"}
      [] e \in {"ArithmeticError", "AssertionError", "AttributeError",
                "BufferError", "EOFError", "ImportError", "LookupError",
                "MemoryError", "NameError", "OSError", "ReferenceError",
                "RuntimeError", "StopAsyncIteration", "StopIteration",
                "SyntaxError", "SystemError", "TypeError", "ValueError",
                "Warning"} -> {"Exception"}
      [] e = "ExceptionGroup" -> {"BaseExceptionGroup", "Exception"}
      [] e \in {"FloatingPointError", "OverflowError", "ZeroDivisionError"} ->
            {"ArithmeticError"}
      [] e = "ModuleNotFoundError" -> {"ImportError"}
      [] e \in {"IndexError", "KeyError"} -> {"LookupError"}
      [] e = "UnboundLocalError" -> {"NameError"}
      [] e \in {"BlockingIOError", "ChildProcessError", "builtins.ConnectionError",
                "FileExistsError", "FileNotFoundError", "InterruptedError",
                "IsADirectoryError", "NotADirectoryError", "PermissionError",
                "ProcessLookupError", "TimeoutError"} -> {"OSError"}
      [] e \in {"BrokenPipeError", "ConnectionAbortedError",
                "ConnectionRefusedError", "ConnectionResetError"} ->
            {"builtins.ConnectionError"}
      [] e \in {"NotImplementedError", "RecursionError"} -> {"RuntimeError"}
      [] e = "IndentationError" -> {"SyntaxError"}
      [] e = "TabError" -> {"IndentationError"}
      [] e = "UnicodeError" -> {"ValueError"}
      [] e \in {"UnicodeDecodeError", "UnicodeEncodeError",
                "UnicodeTranslateError"} -> {"UnicodeError"}
      [] e \in {"BytesWarning", "DeprecationWarning", "EncodingWarning",
                "FutureWarning", "ImportWarning", "PendingDeprecationWarning",
                "ResourceWarning", "RuntimeWarning", "SyntaxWarning",
                "UnicodeWarning", "UserWarning"} -> {"Warning"}
      \* json
      [] e = "json.JSONDecodeError" -> {"ValueError"}
      \* yaml
      [] e = "YAMLError" -> {"Exception"}
      [] e \in {"MarkedYAMLError", "ReaderError", "EmitterError",
                "SerializerError", "RepresenterError", "ResolverError"} ->
            {"YAMLError"}
      [] e \in {"ScannerError", "ParserError", "ComposerError",
                "ConstructorError"} -> {"MarkedYAMLError"}
      \* requests.exceptions
      [] e = "RequestException" -> {"OSError"}
      [] e \in {"InvalidJSONError", "requests.HTTPError",
                "requests.ConnectionError", "Timeout", "URLRequired",
                "TooManyRedirects", "ChunkedEncodingError", "RetryError",
                "UnrewindableBodyError"} -> {"RequestException"}
      [] e = "requests.JSONDecodeError" ->
            {"InvalidJSONError", "json.JSONDecodeError"}
      [] e \in {"ProxyError", "SSLError"} -> {"requests.ConnectionError"}
      [] e = "ConnectTimeout" -> {"requests.ConnectionError", "Timeout"}
      [] e = "ReadTimeout" -> {"Timeout"}
      [] e \in {"MissingSchema", "InvalidSchema", "InvalidURL",
                "InvalidHeader"} -> {"RequestException", "ValueError"}
      [] e = "InvalidProxyURL" -> {"InvalidURL"}
      [] e = "ContentDecodingError" -> {"RequestException", "urllib3.HTTPError"}
      [] e = "StreamConsumedError" -> {"RequestException", "TypeError"}
      [] e = "urllib3.HTTPError" -> {"Exception"}
      \* click.exceptions
      [] e \in {"Abort", "Exit"} -> {"RuntimeError"}
      [] e = "ClickException" -> {"Exception"}
      [] e \in {"UsageError", "FileError"} -> {"ClickException"}
      [] e \in {"BadParameter", "NoSuchOption", "BadOptionUsage",
                "BadArgumentUsage", "NoArgsIsHelpError"} -> {"UsageError"}
      [] e = "MissingParameter" -> {"BadParameter"}

\* isinstance(e, cls) for an exception of class e
RECURSIVE IsInstance(_, _)
IsInstance(e, cls) ==
    \/ ClassNamed(e) = ClassNamed(cls)
    \/ \E base \in Bases(ClassNamed(e)) : IsInstance(base, cls)

\* try: <out> except <classes>: <handler>
Catch(out, classes, handler) ==
    IF out.k = "raise" /\ \E c \in classes : IsInstance(out.e, c)
    THEN handler
    ELSE out

\* ---------------------------------------------- tables of the characters
\* The properties of Unicode characters that str.isspace(), float(),
\* str.title() and repr() consult, as the interpreter holds them.

\* str.isspace(): the code points of the white space characters, as ranges
WhitespaceRanges ==
    <<
        <<9, 13>>, <<28, 32>>, <<133, 133>>, <<160, 160>>, <<5760, 5760>>, <<8192, 8202>>,
        <<8232, 8233>>, <<8239, 8239>>, <<8287, 8287>>, <<12288, 12288>>>>

\* The code point of the digit zero of each script; its digits 1 to 9 follow it
DecimalZeros ==
    {
        48, 1632, 1776, 1984, 2406, 2534, 2662, 2790, 2918, 3046,
        3174, 3302, 3430, 3558, 3664, 3792, 3872, 4160, 4240, 6112,
        6160, 6470, 6608, 6784, 6800, 6992, 7088, 7232, 7248, 42528,
        43216, 43264, 43472, 43504, 43600, 44016, 65296, 66720, 68912, 69734,
        69872, 69942, 70096, 70384, 70736, 70864, 71248, 71360, 71472, 71904,
        72016, 72784, 73040, 73120, 92768, 92864, 93008, 120782, 120792, 120802,
        120812, 120822, 123200, 123632, 125264, 130032}

\* The cased characters (the test of str.title() for "inside a word"), as ranges
CasedRanges ==
    <<
        <<65, 90>>, <<97, 122>>, <<170, 170>>, <<181, 181>>, <<186, 186>>, <<192, 214>>,
        <<216, 246>>, <<248, 442>>, <<444, 447>>, <<452, 659>>, <<661, 696>>, <<704, 705>>,
        <<736, 740>>, <<837, 837>>, <<880, 883>>, <<886, 887>>, <<890, 893>>, <<895, 895>>,
        <<902, 902>>, <<904, 906>>, <<908, 908>>, <<910, 929>>, <<931, 1013>>, <<1015, 1153>>,
        <<1162, 1327>>, <<1329, 1366>>, <<1376, 1416>>, <<4256, 4293>>, <<4295, 4295>>, <<4301, 4301>>,
        <<4304, 4346>>, <<4349, 4351>>, <<5024, 5109>>, <<5112, 5117>>, <<7296, 7304>>, <<7312, 7354>>,
        <<7357, 7359>>, <<7424, 7615>>, <<7680, 7957>>, <<7960, 7965>>, <<7968, 8005>>, <<8008, 8013>>,
        <<8016, 8023>>, <<8025, 8025>>, <<8027, 8027>>, <<8029, 8029>>, <<8031, 8061>>, <<8064, 8116>>,
        <<8118, 8124>>, <<8126, 8126>>, <<8130, 8132>>, <<8134, 8140>>, <<8144, 8147>>, <<8150, 8155>>,
        <<8160, 8172>>, <<8178, 8180>>, <<8182, 8188>>, <<8305, 8305>>, <<8319, 8319>>, <<8336, 8348>>,
        <<8450, 8450>>, <<8455, 8455>>, <<8458, 8467>>, <<8469, 8469>>, <<8473, 8477>>, <<8484, 8484>>,
        <<8486, 8486>>, <<8488, 8488>>, <<8490, 8493>>, <<8495, 8500>>, <<8505, 8505>>, <<8508, 8511>>,
        <<8517, 8521>>, <<8526, 8526>>, <<8544, 8575>>, <<8579, 8580>>, <<9398, 9449>>, <<11264, 11492>>,
        <<11499, 11502>>, <<11506, 11507>>, <<11520, 11557>>, <<11559, 11559>>, <<11565, 11565>>, <<42560, 42605>>,
        <<42624, 42653>>, <<42786, 42887>>, <<42891, 42894>>, <<42896, 42954>>, <<42960, 42961>>, <<42963, 42963>>,
        <<42965, 42969>>, <<42997, 42998>>, <<43000, 43002>>, <<43824, 43866>>, <<43868, 43880>>, <<43888, 43967>>,
        <<64256, 64262>>, <<64275, 64279>>, <<65313, 65338>>, <<65345, 65370>>, <<66560, 66639>>, <<66736, 66771>>,
        <<66776, 66811>>, <<66928, 66938>>, <<66940, 66954>>, <<66956, 66962>>, <<66964, 66965>>, <<66967, 66977>>,
        <<66979, 66993>>, <<66995, 67001>>, <<67003, 67004>>, <<67456, 67456>>, <<67459, 67461>>, <<67463, 67504>>,
        <<67506, 67514>>, <<68736, 68786>>, <<68800, 68850>>, <<71840, 71903>>, <<93760, 93823>>, <<119808, 119892>>,
        <<119894, 119964>>, <<119966, 119967>>, <<119970, 119970>>, <<119973, 119974>>, <<119977, 119980>>, <<119982, 119993>>,
        <<119995, 119995>>, <<119997, 120003>>, <<120005, 120069>>, <<120071, 120074>>, <<120077, 120084>>, <<120086, 120092>>,
        <<120094, 120121>>, <<120123, 120126>>, <<120128, 120132>>, <<120134, 120134>>, <<120138, 120144>>, <<120146, 120485>>,
        <<120488, 120512>>, <<120514, 120538>>, <<120540, 120570>>, <<120572, 120596>>, <<120598, 120628>>, <<120630, 120654>>,
        <<120656, 120686>>, <<120688, 120712>>, <<120714, 120744>>, <<120746, 120770>>, <<120772, 120779>>, <<122624, 122633>>,
        <<122635, 122654>>, <<125184, 125251>>, <<127280, 127305>>, <<127312, 127337>>, <<127344, 127369>>>>

\* The case-ignorable characters (skipped around a capital sigma), as ranges
CaseIgnorableRanges ==
    <<
        <<39, 39>>, <<46, 46>>, <<58, 58>>, <<94, 94>>, <<96, 96>>, <<168, 168>>,
        <<173, 173>>, <<175, 175>>, <<180, 180>>, <<183, 184>>, <<688, 879>>, <<884, 885>>,
        <<890, 890>>, <<900, 901>>, <<903, 903>>, <<1155, 1161>>, <<1369, 1369>>, <<1375, 1375>>,
        <<1425, 1469>>, <<1471, 1471>>, <<1473, 1474>>, <<1476, 1477>>, <<1479, 1479>>, <<1524, 1524>>,
        <<1536, 1541>>, <<1552, 1562>>, <<1564, 1564>>, <<1600, 1600>>, <<1611, 1631>>, <<1648, 1648>>,
        <<1750, 1757>>, <<1759, 1768>>, <<1770, 1773>>, <<1807, 1807>>, <<1809, 1809>>, <<1840, 1866>>,
        <<1958, 1968>>, <<2027, 2037>>, <<2042, 2042>>, <<2045, 2045>>, <<2070, 2093>>, <<2137, 2139>>,
        <<2184, 2184>>, <<2192, 2193>>, <<2200, 2207>>, <<2249, 2306>>, <<2362, 2362>>, <<2364, 2364>>,
        <<2369, 2376>>, <<2381, 2381>>, <<2385, 2391>>, <<2402, 2403>>, <<2417, 2417>>, <<2433, 2433>>,
        <<2492, 2492>>, <<2497, 2500>>, <<2509, 2509>>, <<2530, 2531>>, <<2558, 2558>>, <<2561, 2562>>,
        <<2620, 2620>>, <<2625, 2626>>, <<2631, 2632>>, <<2635, 2637>>, <<2641, 2641>>, <<2672, 2673>>,
        <<2677, 2677>>, <<2689, 2690>>, <<2748, 2748>>, <<2753, 2757>>, <<2759, 2760>>, <<2765, 2765>>,
        <<2786, 2787>>, <<2810, 2815>>, <<2817, 2817>>, <<2876, 2876>>, <<2879, 2879>>, <<2881, 2884>>,
        <<2893, 2893>>, <<2901, 2902>>, <<2914, 2915>>, <<2946, 2946>>, <<3008, 3008>>, <<3021, 3021>>,
        <<3072, 3072>>, <<3076, 3076>>, <<3132, 3132>>, <<3134, 3136>>, <<3142, 3144>>, <<3146, 3149>>,
        <<3157, 3158>>, <<3170, 3171>>, <<3201, 3201>>, <<3260, 3260>>, <<3263, 3263>>, <<3270, 3270>>,
        <<3276, 3277>>, <<3298, 3299>>, <<3328, 3329>>, <<3387, 3388>>, <<3393, 3396>>, <<3405, 3405>>,
        <<3426, 3427>>, <<3457, 3457>>, <<3530, 3530>>, <<3538, 3540>>, <<3542, 3542>>, <<3633, 3633>>,
        <<3636, 3642>>, <<3654, 3662>>, <<3761, 3761>>, <<3764, 3772>>, <<3782, 3782>>, <<3784, 3789>>,
        <<3864, 3865>>, <<3893, 3893>>, <<3895, 3895>>, <<3897, 3897>>, <<3953, 3966>>, <<3968, 3972>>,
        <<3974, 3975>>, <<3981, 3991>>, <<3993, 4028>>, <<4038, 4038>>, <<4141, 4144>>, <<4146, 4151>>,
        <<4153, 4154>>, <<4157, 4158>>, <<4184, 4185>>, <<4190, 4192>>, <<4209, 4212>>, <<4226, 4226>>,
        <<4229, 4230>>, <<4237, 4237>>, <<4253, 4253>>, <<4348, 4348>>, <<4957, 4959>>, <<5906, 5908>>,
        <<5938, 5939>>, <<5970, 5971>>, <<6002, 6003>>, <<6068, 6069>>, <<6071, 6077>>, <<6086, 6086>>,
        <<6089, 6099>>, <<6103, 6103>>, <<6109, 6109>>, <<6155, 6159>>, <<6211, 6211>>, <<6277, 6278>>,
        <<6313, 6313>>, <<6432, 6434>>, <<6439, 6440>>, <<6450, 6450>>, <<6457, 6459>>, <<6679, 6680>>,
        <<6683, 6683>>, <<6742, 6742>>, <<6744, 6750>>, <<6752, 6752>>, <<6754, 6754>>, <<6757, 6764>>,
        <<6771, 6780>>, <<6783, 6783>>, <<6823, 6823>>, <<6832, 6862>>, <<6912, 6915>>, <<6964, 6964>>,
        <<6966, 6970>>, <<6972, 6972>>, <<6978, 6978>>, <<7019, 7027>>, <<7040, 7041>>, <<7074, 7077>>,
        <<7080, 7081>>, <<7083, 7085>>, <<7142, 7142>>, <<7144, 7145>>, <<7149, 7149>>, <<7151, 7153>>,
        <<7212, 7219>>, <<7222, 7223>>, <<7288, 7293>>, <<7376, 7378>>, <<7380, 7392>>, <<7394, 7400>>,
        <<7405, 7405>>, <<7412, 7412>>, <<7416, 7417>>, <<7468, 7530>>, <<7544, 7544>>, <<7579, 7679>>,
        <<8125, 8125>>, <<8127, 8129>>, <<8141, 8143>>, <<8157, 8159>>, <<8173, 8175>>, <<8189, 8190>>,
        <<8203, 8207>>, <<8216, 8217>>, <<8228, 8228>>, <<8231, 8231>>, <<8234, 8238>>, <<8288, 8292>>,
        <<8294, 8303>>, <<8305, 8305>>, <<8319, 8319>>, <<8336, 8348>>, <<8400, 8432>>, <<11388, 11389>>,
        <<11503, 11505>>, <<11631, 11631>>, <<11647, 11647>>, <<11744, 11775>>, <<11823, 11823>>, <<12293, 12293>>,
        <<12330, 12333>>, <<12337, 12341>>, <<12347, 12347>>, <<12441, 12446>>, <<12540, 12542>>, <<40981, 40981>>,
        <<42232, 42237>>, <<42508, 42508>>, <<42607, 42610>>, <<42612, 42621>>, <<42623, 42623>>, <<42652, 42655>>,
        <<42736, 42737>>, <<42752, 42785>>, <<42864, 42864>>, <<42888, 42890>>, <<42994, 42996>>, <<43000, 43001>>,
        <<43010, 43010>>, <<43014, 43014>>, <<43019, 43019>>, <<43045, 43046>>, <<43052, 43052>>, <<43204, 43205>>,
        <<43232, 43249>>, <<43263, 43263>>, <<43302, 43309>>, <<43335, 43345>>, <<43392, 43394>>, <<43443, 43443>>,
        <<43446, 43449>>, <<43452, 43453>>, <<43471, 43471>>, <<43493, 43494>>, <<43561, 43566>>, <<43569, 43570>>,
        <<43573, 43574>>, <<43587, 43587>>, <<43596, 43596>>, <<43632, 43632>>, <<43644, 43644>>, <<43696, 43696>>,
        <<43698, 43700>>, <<43703, 43704>>, <<43710, 43711>>, <<43713, 43713>>, <<43741, 43741>>, <<43756, 43757>>,
        <<43763, 43764>>, <<43766, 43766>>, <<43867, 43871>>, <<43881, 43883>>, <<44005, 44005>>, <<44008, 44008>>,
        <<44013, 44013>>, <<64286, 64286>>, <<64434, 64450>>, <<65024, 65039>>, <<65043, 65043>>, <<65056, 65071>>,
        <<65106, 65106>>, <<65109, 65109>>, <<65279, 65279>>, <<65287, 65287>>, <<65294, 65294>>, <<65306, 65306>>,
        <<65342, 65342>>, <<65344, 65344>>, <<65392, 65392>>, <<65438, 65439>>, <<65507, 65507>>, <<65529, 65531>>,
        <<66045, 66045>>, <<66272, 66272>>, <<66422, 66426>>, <<67456, 67461>>, <<67463, 67504>>, <<67506, 67514>>,
        <<68097, 68099>>, <<68101, 68102>>, <<68108, 68111>>, <<68152, 68154>>, <<68159, 68159>>, <<68325, 68326>>,
        <<68900, 68903>>, <<69291, 69292>>, <<69446, 69456>>, <<69506, 69509>>, <<69633, 69633>>, <<69688, 69702>>,
        <<69744, 69744>>, <<69747, 69748>>, <<69759, 69761>>, <<69811, 69814>>, <<69817, 69818>>, <<69821, 69821>>,
        <<69826, 69826>>, <<69837, 69837>>, <<69888, 69890>>, <<69927, 69931>>, <<69933, 69940>>, <<70003, 70003>>,
        <<70016, 70017>>, <<70070, 70078>>, <<70089, 70092>>, <<70095, 70095>>, <<70191, 70193>>, <<70196, 70196>>,
        <<70198, 70199>>, <<70206, 70206>>, <<70367, 70367>>, <<70371, 70378>>, <<70400, 70401>>, <<70459, 70460>>,
        <<70464, 70464>>, <<70502, 70508>>, <<70512, 70516>>, <<70712, 70719>>, <<70722, 70724>>, <<70726, 70726>>,
        <<70750, 70750>>, <<70835, 70840>>, <<70842, 70842>>, <<70847, 70848>>, <<70850, 70851>>, <<71090, 71093>>,
        <<71100, 71101>>, <<71103, 71104>>, <<71132, 71133>>, <<71219, 71226>>, <<71229, 71229>>, <<71231, 71232>>,
        <<71339, 71339>>, <<71341, 71341>>, <<71344, 71349>>, <<71351, 71351>>, <<71453, 71455>>, <<71458, 71461>>,
        <<71463, 71467>>, <<71727, 71735>>, <<71737, 71738>>, <<71995, 71996>>, <<71998, 71998>>, <<72003, 72003>>,
        <<72148, 72151>>, <<72154, 72155>>, <<72160, 72160>>, <<72193, 72202>>, <<72243, 72248>>, <<72251, 72254>>,
        <<72263, 72263>>, <<72273, 72278>>, <<72281, 72283>>, <<72330, 72342>>, <<72344, 72345>>, <<72752, 72758>>,
        <<72760, 72765>>, <<72767, 72767>>, <<72850, 72871>>, <<72874, 72880>>, <<72882, 72883>>, <<72885, 72886>>,
        <<73009, 73014>>, <<73018, 73018>>, <<73020, 73021>>, <<73023, 73029>>, <<73031, 73031>>, <<73104, 73105>>,
        <<73109, 73109>>, <<73111, 73111>>, <<73459, 73460>>, <<78896, 78904>>, <<92912, 92916>>, <<92976, 92982>>,
        <<92992, 92995>>, <<94031, 94031>>, <<94095, 94111>>, <<94176, 94177>>, <<94179, 94180>>, <<110576, 110579>>,
        <<110581, 110587>>, <<110589, 110590>>, <<113821, 113822>>, <<113824, 113827>>, <<118528, 118573>>, <<118576, 118598>>,
        <<119143, 119145>>, <<119155, 119170>>, <<119173, 119179>>, <<119210, 119213>>, <<119362, 119364>>, <<121344, 121398>>,
        <<121403, 121452>>, <<121461, 121461>>, <<121476, 121476>>, <<121499, 121503>>, <<121505, 121519>>, <<122880, 122886>>,
        <<122888, 122904>>, <<122907, 122913>>, <<122915, 122916>>, <<122918, 122922>>, <<123184, 123197>>, <<123566, 123566>>,
        <<123628, 123631>>, <<125136, 125142>>, <<125252, 125259>>, <<127995, 127999>>, <<917505, 917505>>, <<917536, 917631>>,
        <<917760, 917999>>>>

\* str.lower() of one character, where it is one other character: runs
\* <<first, last, step, offset>> of code points and the offset to their lower case
LowerRuns ==
    <<
        <<65, 90, 1, 32>>, <<192, 214, 1, 32>>, <<216, 222, 1, 32>>, <<256, 302, 2, 1>>,
        <<306, 310, 2, 1>>, <<313, 327, 2, 1>>, <<330, 374, 2, 1>>, <<376, 376, 1, -121>>,
        <<377, 381, 2, 1>>, <<385, 385, 1, 210>>, <<386, 388, 2, 1>>, <<390, 390, 1, 206>>,
        <<391, 391, 1, 1>>, <<393, 394, 1, 205>>, <<395, 395, 1, 1>>, <<398, 398, 1, 79>>,
        <<399, 399, 1, 202>>, <<400, 400, 1, 203>>, <<401, 401, 1, 1>>, <<403, 403, 1, 205>>,
        <<404, 404, 1, 207>>, <<406, 406, 1, 211>>, <<407, 407, 1, 209>>, <<408, 408, 1, 1>>,
        <<412, 412, 1, 211>>, <<413, 413, 1, 213>>, <<415, 415, 1, 214>>, <<416, 420, 2, 1>>,
        <<422, 422, 1, 218>>, <<423, 423, 1, 1>>, <<425, 425, 1, 218>>, <<428, 428, 1, 1>>,
        <<430, 430, 1, 218>>, <<431, 431, 1, 1>>, <<433, 434, 1, 217>>, <<435, 437, 2, 1>>,
        <<439, 439, 1, 219>>, <<440, 440, 1, 1>>, <<444, 444, 1, 1>>, <<452, 452, 1, 2>>,
        <<453, 453, 1, 1>>, <<455, 455, 1, 2>>, <<456, 456, 1, 1>>, <<458, 458, 1, 2>>,
        <<459, 475, 2, 1>>, <<478, 494, 2, 1>>, <<497, 497, 1, 2>>, <<498, 500, 2, 1>>,
        <<502, 502, 1, -97>>, <<503, 503, 1, -56>>, <<504, 542, 2, 1>>, <<544, 544, 1, -130>>,
        <<546, 562, 2, 1>>, <<570, 570, 1, 10795>>, <<571, 571, 1, 1>>, <<573, 573, 1, -163>>,
        <<574, 574, 1, 10792>>, <<577, 577, 1, 1>>, <<579, 579, 1, -195>>, <<580, 580, 1, 69>>,
        <<581, 581, 1, 71>>, <<582, 590, 2, 1>>, <<880, 882, 2, 1>>, <<886, 886, 1, 1>>,
        <<895, 895, 1, 116>>, <<902, 902, 1, 38>>, <<904, 906, 1, 37>>, <<908, 908, 1, 64>>,
        <<910, 911, 1, 63>>, <<913, 929, 1, 32>>, <<931, 939, 1, 32>>, <<975, 975, 1, 8>>,
        <<984, 1006, 2, 1>>, <<1012, 1012, 1, -60>>, <<1015, 1015, 1, 1>>, <<1017, 1017, 1, -7>>,
        <<1018, 1018, 1, 1>>, <<1021, 1023, 1, -130>>, <<1024, 1039, 1, 80>>, <<1040, 1071, 1, 32>>,
        <<1120, 1152, 2, 1>>, <<1162, 1214, 2, 1>>, <<1216, 1216, 1, 15>>, <<1217, 1229, 2, 1>>,
        <<1232, 1326, 2, 1>>, <<1329, 1366, 1, 48>>, <<4256, 4293, 1, 7264>>, <<4295, 4295, 1, 7264>>,
        <<4301, 4301, 1, 7264>>, <<5024, 5103, 1, 38864>>, <<5104, 5109, 1, 8>>, <<7312, 7354, 1, -3008>>,
        <<7357, 7359, 1, -3008>>, <<7680, 7828, 2, 1>>, <<7838, 7838, 1, -7615>>, <<7840, 7934, 2, 1>>,
        <<7944, 7951, 1, -8>>, <<7960, 7965, 1, -8>>, <<7976, 7983, 1, -8>>, <<7992, 7999, 1, -8>>,
        <<8008, 8013, 1, -8>>, <<8025, 8031, 2, -8>>, <<8040, 8047, 1, -8>>, <<8072, 8079, 1, -8>>,
        <<8088, 8095, 1, -8>>, <<8104, 8111, 1, -8>>, <<8120, 8121, 1, -8>>, <<8122, 8123, 1, -74>>,
        <<8124, 8124, 1, -9>>, <<8136, 8139, 1, -86>>, <<8140, 8140, 1, -9>>, <<8152, 8153, 1, -8>>,
        <<8154, 8155, 1, -100>>, <<8168, 8169, 1, -8>>, <<8170, 8171, 1, -112>>, <<8172, 8172, 1, -7>>,
        <<8184, 8185, 1, -128>>, <<8186, 8187, 1, -126>>, <<8188, 8188, 1, -9>>, <<8486, 8486, 1, -7517>>,
        <<8490, 8490, 1, -8383>>, <<8491, 8491, 1, -8262>>, <<8498, 8498, 1, 28>>, <<8544, 8559, 1, 16>>,
        <<8579, 8579, 1, 1>>, <<9398, 9423, 1, 26>>, <<11264, 11311, 1, 48>>, <<11360, 11360, 1, 1>>,
        <<11362, 11362, 1, -10743>>, <<11363, 11363, 1, -3814>>, <<11364, 11364, 1, -10727>>, <<11367, 11371, 2, 1>>,
        <<11373, 11373, 1, -10780>>, <<11374, 11374, 1, -10749>>, <<11375, 11375, 1, -10783>>, <<11376, 11376, 1, -10782>>,
        <<11378, 11378, 1, 1>>, <<11381, 11381, 1, 1>>, <<11390, 11391, 1, -10815>>, <<11392, 11490, 2, 1>>,
        <<11499, 11501, 2, 1>>, <<11506, 11506, 1, 1>>, <<42560, 42604, 2, 1>>, <<42624, 42650, 2, 1>>,
        <<42786, 42798, 2, 1>>, <<42802, 42862, 2, 1>>, <<42873, 42875, 2, 1>>, <<42877, 42877, 1, -35332>>,
        <<42878, 42886, 2, 1>>, <<42891, 42891, 1, 1>>, <<42893, 42893, 1, -42280>>, <<42896, 42898, 2, 1>>,
        <<42902, 42920, 2, 1>>, <<42922, 42922, 1, -42308>>, <<42923, 42923, 1, -42319>>, <<42924, 42924, 1, -42315>>,
        <<42925, 42925, 1, -42305>>, <<42926, 42926, 1, -42308>>, <<42928, 42928, 1, -42258>>, <<42929, 42929, 1, -42282>>,
        <<42930, 42930, 1, -42261>>, <<42931, 42931, 1, 928>>, <<42932, 42946, 2, 1>>, <<42948, 42948, 1, -48>>,
        <<42949, 42949, 1, -42307>>, <<42950, 42950, 1, -35384>>, <<42951, 42953, 2, 1>>, <<42960, 42960, 1, 1>>,
        <<42966, 42968, 2, 1>>, <<42997, 42997, 1, 1>>, <<65313, 65338, 1, 32>>, <<66560, 66599, 1, 40>>,
        <<66736, 66771, 1, 40>>, <<66928, 66964, 2, 39>>, <<66929, 66937, 2, 39>>, <<66941, 66953, 2, 39>>,
        <<66957, 66961, 2, 39>>, <<66965, 66965, 1, 39>>, <<68736, 68786, 1, 64>>, <<71840, 71871, 1, 32>>,
        <<93760, 93791, 1, 32>>, <<125184, 125217, 1, 34>>>>

\* The title case of one character, where it is one other character, as runs
TitleRuns ==
    <<
        <<97, 122, 1, -32>>, <<181, 181, 1, 743>>, <<224, 246, 1, -32>>, <<248, 254, 1, -32>>,
        <<255, 255, 1, 121>>, <<257, 303, 2, -1>>, <<305, 305, 1, -232>>, <<307, 311, 2, -1>>,
        <<314, 328, 2, -1>>, <<331, 375, 2, -1>>, <<378, 382, 2, -1>>, <<383, 383, 1, -300>>,
        <<384, 384, 1, 195>>, <<387, 389, 2, -1>>, <<392, 392, 1, -1>>, <<396, 396, 1, -1>>,
        <<402, 402, 1, -1>>, <<405, 405, 1, 97>>, <<409, 409, 1, -1>>, <<410, 410, 1, 163>>,
        <<414, 414, 1, 130>>, <<417, 421, 2, -1>>, <<424, 424, 1, -1>>, <<429, 429, 1, -1>>,
        <<432, 432, 1, -1>>, <<436, 438, 2, -1>>, <<441, 441, 1, -1>>, <<445, 445, 1, -1>>,
        <<447, 447, 1, 56>>, <<452, 452, 1, 1>>, <<454, 454, 1, -1>>, <<455, 455, 1, 1>>,
        <<457, 457, 1, -1>>, <<458, 458, 1, 1>>, <<460, 476, 2, -1>>, <<477, 477, 1, -79>>,
        <<479, 495, 2, -1>>, <<497, 497, 1, 1>>, <<499, 501, 2, -1>>, <<505, 543, 2, -1>>,
        <<547, 563, 2, -1>>, <<572, 572, 1, -1>>, <<575, 576, 1, 10815>>, <<578, 578, 1, -1>>,
        <<583, 591, 2, -1>>, <<592, 592, 1, 10783>>, <<593, 593, 1, 10780>>, <<594, 594, 1, 10782>>,
        <<595, 595, 1, -210>>, <<596, 596, 1, -206>>, <<598, 599, 1, -205>>, <<601, 601, 1, -202>>,
        <<603, 603, 1, -203>>, <<604, 604, 1, 42319>>, <<608, 608, 1, -205>>, <<609, 609, 1, 42315>>,
        <<611, 611, 1, -207>>, <<613, 613, 1, 42280>>, <<614, 614, 1, 42308>>, <<616, 616, 1, -209>>,
        <<617, 617, 1, -211>>, <<618, 618, 1, 42308>>, <<619, 619, 1, 10743>>, <<620, 620, 1, 42305>>,
        <<623, 623, 1, -211>>, <<625, 625, 1, 10749>>, <<626, 626, 1, -213>>, <<629, 629, 1, -214>>,
        <<637, 637, 1, 10727>>, <<640, 640, 1, -218>>, <<642, 642, 1, 42307>>, <<643, 643, 1, -218>>,
        <<647, 647, 1, 42282>>, <<648, 648, 1, -218>>, <<649, 649, 1, -69>>, <<650, 651, 1, -217>>,
        <<652, 652, 1, -71>>, <<658, 658, 1, -219>>, <<669, 669, 1, 42261>>, <<670, 670, 1, 42258>>,
        <<837, 837, 1, 84>>, <<881, 883, 2, -1>>, <<887, 887, 1, -1>>, <<891, 893, 1, 130>>,
        <<940, 940, 1, -38>>, <<941, 943, 1, -37>>, <<945, 961, 1, -32>>, <<962, 962, 1, -31>>,
        <<963, 971, 1, -32>>, <<972, 972, 1, -64>>, <<973, 974, 1, -63>>, <<976, 976, 1, -62>>,
        <<977, 977, 1, -57>>, <<981, 981, 1, -47>>, <<982, 982, 1, -54>>, <<983, 983, 1, -8>>,
        <<985, 1007, 2, -1>>, <<1008, 1008, 1, -86>>, <<1009, 1009, 1, -80>>, <<1010, 1010, 1, 7>>,
        <<1011, 1011, 1, -116>>, <<1013, 1013, 1, -96>>, <<1016, 1016, 1, -1>>, <<1019, 1019, 1, -1>>,
        <<1072, 1103, 1, -32>>, <<1104, 1119, 1, -80>>, <<1121, 1153, 2, -1>>, <<1163, 1215, 2, -1>>,
        <<1218, 1230, 2, -1>>, <<1231, 1231, 1, -15>>, <<1233, 1327, 2, -1>>, <<1377, 1414, 1, -48>>,
        <<5112, 5117, 1, -8>>, <<7296, 7296, 1, -6254>>, <<7297, 7297, 1, -6253>>, <<7298, 7298, 1, -6244>>,
        <<7299, 7300, 1, -6242>>, <<7301, 7301, 1, -6243>>, <<7302, 7302, 1, -6236>>, <<7303, 7303, 1, -6181>>,
        <<7304, 7304, 1, 35266>>, <<7545, 7545, 1, 35332>>, <<7549, 7549, 1, 3814>>, <<7566, 7566, 1, 35384>>,
        <<7681, 7829, 2, -1>>, <<7835, 7835, 1, -59>>, <<7841, 7935, 2, -1>>, <<7936, 7943, 1, 8>>,
        <<7952, 7957, 1, 8>>, <<7968, 7975, 1, 8>>, <<7984, 7991, 1, 8>>, <<8000, 8005, 1, 8>>,
        <<8017, 8023, 2, 8>>, <<8032, 8039, 1, 8>>, <<8048, 8049, 1, 74>>, <<8050, 8053, 1, 86>>,
        <<8054, 8055, 1, 100>>, <<8056, 8057, 1, 128>>, <<8058, 8059, 1, 112>>, <<8060, 8061, 1, 126>>,
        <<8064, 8071, 1, 8>>, <<8080, 8087, 1, 8>>, <<8096, 8103, 1, 8>>, <<8112, 8113, 1, 8>>,
        <<8115, 8115, 1, 9>>, <<8126, 8126, 1, -7205>>, <<8131, 8131, 1, 9>>, <<8144, 8145, 1, 8>>,
        <<8160, 8161, 1, 8>>, <<8165, 8165, 1, 7>>, <<8179, 8179, 1, 9>>, <<8526, 8526, 1, -28>>,
        <<8560, 8575, 1, -16>>, <<8580, 8580, 1, -1>>, <<9424, 9449, 1, -26>>, <<11312, 11359, 1, -48>>,
        <<11361, 11361, 1, -1>>, <<11365, 11365, 1, -10795>>, <<11366, 11366, 1, -10792>>, <<11368, 11372, 2, -1>>,
        <<11379, 11379, 1, -1>>, <<11382, 11382, 1, -1>>, <<11393, 11491, 2, -1>>, <<11500, 11502, 2, -1>>,
        <<11507, 11507, 1, -1>>, <<11520, 11557, 1, -7264>>, <<11559, 11559, 1, -7264>>, <<11565, 11565, 1, -7264>>,
        <<42561, 42605, 2, -1>>, <<42625, 42651, 2, -1>>, <<42787, 42799, 2, -1>>, <<42803, 42863, 2, -1>>,
        <<42874, 42876, 2, -1>>, <<42879, 42887, 2, -1>>, <<42892, 42892, 1, -1>>, <<42897, 42899, 2, -1>>,
        <<42900, 42900, 1, 48>>, <<42903, 42921, 2, -1>>, <<42933, 42947, 2, -1>>, <<42952, 42954, 2, -1>>,
        <<42961, 42961, 1, -1>>, <<42967, 42969, 2, -1>>, <<42998, 42998, 1, -1>>, <<43859, 43859, 1, -928>>,
        <<43888, 43967, 1, -38864>>, <<65345, 65370, 1, -32>>, <<66600, 66639, 1, -40>>, <<66776, 66811, 1, -40>>,
        <<66967, 67003, 2, -39>>, <<66968, 66976, 2, -39>>, <<66980, 66992, 2, -39>>, <<66996, 67000, 2, -39>>,
        <<67004, 67004, 1, -39>>, <<68800, 68850, 1, -64>>, <<71872, 71903, 1, -32>>, <<93792, 93823, 1, -32>>,
        <<125218, 125251, 1, -34>>>>

\* str.lower() of one character, where it is several: <<code point, lower case>>
LowerSpecial ==
    <<
        <<304, <<105, 775>>>>>>

\* The title case of one character, where it is several characters
TitleSpecial ==
    <<
        <<223, <<83, 115>>>>, <<329, <<700, 78>>>>, <<496, <<74, 780>>>>,
        <<912, <<921, 776, 769>>>>, <<944, <<933, 776, 769>>>>, <<1415, <<1333, 1410>>>>,
        <<7830, <<72, 817>>>>, <<7831, <<84, 776>>>>, <<7832, <<87, 778>>>>,
        <<7833, <<89, 778>>>>, <<7834, <<65, 702>>>>, <<8016, <<933, 787>>>>,
        <<8018, <<933, 787, 768>>>>, <<8020, <<933, 787, 769>>>>, <<8022, <<933, 787, 834>>>>,
        <<8114, <<8122, 837>>>>, <<8116, <<902, 837>>>>, <<8118, <<913, 834>>>>,
        <<8119, <<913, 834, 837>>>>, <<8130, <<8138, 837>>>>, <<8132, <<905, 837>>>>,
        <<8134, <<919, 834>>>>, <<8135, <<919, 834, 837>>>>, <<8146, <<921, 776, 768>>>>,
        <<8147, <<921, 776, 769>>>>, <<8150, <<921, 834>>>>, <<8151, <<921, 776, 834>>>>,
        <<8162, <<933, 776, 768>>>>, <<8163, <<933, 776, 769>>>>, <<8164, <<929, 787>>>>,
        <<8166, <<933, 834>>>>, <<8167, <<933, 776, 834>>>>, <<8178, <<8186, 837>>>>,
        <<8180, <<911, 837>>>>, <<8182, <<937, 834>>>>, <<8183, <<937, 834, 837>>>>,
        <<64256, <<70, 102>>>>, <<64257, <<70, 105>>>>, <<64258, <<70, 108>>>>,
        <<64259, <<70, 102, 105>>>>, <<64260, <<70, 102, 108>>>>, <<64261, <<83, 116>>>>,
        <<64262, <<83, 116>>>>, <<64275, <<1348, 1398>>>>, <<64276, <<1348, 1381>>>>,
        <<64277, <<1348, 1387>>>>, <<64278, <<1358, 1398>>>>, <<64279, <<1348, 1389>>>>>>

\* The characters str.isprintable() rejects, which repr() writes as escapes, as ranges
NonPrintableRanges ==
    <<
        <<0, 31>>, <<127, 160>>, <<173, 173>>, <<888, 889>>, <<896, 899>>, <<907, 907>>,
        <<909, 909>>, <<930, 930>>, <<1328, 1328>>, <<1367, 1368>>, <<1419, 1420>>, <<1424, 1424>>,
        <<1480, 1487>>, <<1515, 1518>>, <<1525, 1541>>, <<1564, 1564>>, <<1757, 1757>>, <<1806, 1807>>,
        <<1867, 1868>>, <<1970, 1983>>, <<2043, 2044>>, <<2094, 2095>>, <<2111, 2111>>, <<2140, 2141>>,
        <<2143, 2143>>, <<2155, 2159>>, <<2191, 2199>>, <<2274, 2274>>, <<2436, 2436>>, <<2445, 2446>>,
        <<2449, 2450>>, <<2473, 2473>>, <<2481, 2481>>, <<2483, 2485>>, <<2490, 2491>>, <<2501, 2502>>,
        <<2505, 2506>>, <<2511, 2518>>, <<2520, 2523>>, <<2526, 2526>>, <<2532, 2533>>, <<2559, 2560>>,
        <<2564, 2564>>, <<2571, 2574>>, <<2577, 2578>>, <<2601, 2601>>, <<2609, 2609>>, <<2612, 2612>>,
        <<2615, 2615>>, <<2618, 2619>>, <<2621, 2621>>, <<2627, 2630>>, <<2633, 2634>>, <<2638, 2640>>,
        <<2642, 2648>>, <<2653, 2653>>, <<2655, 2661>>, <<2679, 2688>>, <<2692, 2692>>, <<2702, 2702>>,
        <<2706, 2706>>, <<2729, 2729>>, <<2737, 2737>>, <<2740, 2740>>, <<2746, 2747>>, <<2758, 2758>>,
        <<2762, 2762>>, <<2766, 2767>>, <<2769, 2783>>, <<2788, 2789>>, <<2802, 2808>>, <<2816, 2816>>,
        <<2820, 2820>>, <<2829, 2830>>, <<2833, 2834>>, <<2857, 2857>>, <<2865, 2865>>, <<2868, 2868>>,
        <<2874, 2875>>, <<2885, 2886>>, <<2889, 2890>>, <<2894, 2900>>, <<2904, 2907>>, <<2910, 2910>>,
        <<2916, 2917>>, <<2936, 2945>>, <<2948, 2948>>, <<2955, 2957>>, <<2961, 2961>>, <<2966, 2968>>,
        <<2971, 2971>>, <<2973, 2973>>, <<2976, 2978>>, <<2981, 2983>>, <<2987, 2989>>, <<3002, 3005>>,
        <<3011, 3013>>, <<3017, 3017>>, <<3022, 3023>>, <<3025, 3030>>, <<3032, 3045>>, <<3067, 3071>>,
        <<3085, 3085>>, <<3089, 3089>>, <<3113, 3113>>, <<3130, 3131>>, <<3141, 3141>>, <<3145, 3145>>,
        <<3150, 3156>>, <<3159, 3159>>, <<3163, 3164>>, <<3166, 3167>>, <<3172, 3173>>, <<3184, 3190>>,
        <<3213, 3213>>, <<3217, 3217>>, <<3241, 3241>>, <<3252, 3252>>, <<3258, 3259>>, <<3269, 3269>>,
        <<3273, 3273>>, <<3278, 3284>>, <<3287, 3292>>, <<3295, 3295>>, <<3300, 3301>>, <<3312, 3312>>,
        <<3315, 3327>>, <<3341, 3341>>, <<3345, 3345>>, <<3397, 3397>>, <<3401, 3401>>, <<3408, 3411>>,
        <<3428, 3429>>, <<3456, 3456>>, <<3460, 3460>>, <<3479, 3481>>, <<3506, 3506>>, <<3516, 3516>>,
        <<3518, 3519>>, <<3527, 3529>>, <<3531, 3534>>, <<3541, 3541>>, <<3543, 3543>>, <<3552, 3557>>,
        <<3568, 3569>>, <<3573, 3584>>, <<3643, 3646>>, <<3676, 3712>>, <<3715, 3715>>, <<3717, 3717>>,
        <<3723, 3723>>, <<3748, 3748>>, <<3750, 3750>>, <<3774, 3775>>, <<3781, 3781>>, <<3783, 3783>>,
        <<3790, 3791>>, <<3802, 3803>>, <<3808, 3839>>, <<3912, 3912>>, <<3949, 3952>>, <<3992, 3992>>,
        <<4029, 4029>>, <<4045, 4045>>, <<4059, 4095>>, <<4294, 4294>>, <<4296, 4300>>, <<4302, 4303>>,
        <<4681, 4681>>, <<4686, 4687>>, <<4695, 4695>>, <<4697, 4697>>, <<4702, 4703>>, <<4745, 4745>>,
        <<4750, 4751>>, <<4785, 4785>>, <<4790, 4791>>, <<4799, 4799>>, <<4801, 4801>>, <<4806, 4807>>,
        <<4823, 4823>>, <<4881, 4881>>, <<4886, 4887>>, <<4955, 4956>>, <<4989, 4991>>, <<5018, 5023>>,
        <<5110, 5111>>, <<5118, 5119>>, <<5760, 5760>>, <<5789, 5791>>, <<5881, 5887>>, <<5910, 5918>>,
        <<5943, 5951>>, <<5972, 5983>>, <<5997, 5997>>, <<6001, 6001>>, <<6004, 6015>>, <<6110, 6111>>,
        <<6122, 6127>>, <<6138, 6143>>, <<6158, 6158>>, <<6170, 6175>>, <<6265, 6271>>, <<6315, 6319>>,
        <<6390, 6399>>, <<6431, 6431>>, <<6444, 6447>>, <<6460, 6463>>, <<6465, 6467>>, <<6510, 6511>>,
        <<6517, 6527>>, <<6572, 6575>>, <<6602, 6607>>, <<6619, 6621>>, <<6684, 6685>>, <<6751, 6751>>,
        <<6781, 6782>>, <<6794, 6799>>, <<6810, 6815>>, <<6830, 6831>>, <<6863, 6911>>, <<6989, 6991>>,
        <<7039, 7039>>, <<7156, 7163>>, <<7224, 7226>>, <<7242, 7244>>, <<7305, 7311>>, <<7355, 7356>>,
        <<7368, 7375>>, <<7419, 7423>>, <<7958, 7959>>, <<7966, 7967>>, <<8006, 8007>>, <<8014, 8015>>,
        <<8024, 8024>>, <<8026, 8026>>, <<8028, 8028>>, <<8030, 8030>>, <<8062, 8063>>, <<8117, 8117>>,
        <<8133, 8133>>, <<8148, 8149>>, <<8156, 8156>>, <<8176, 8177>>, <<8181, 8181>>, <<8191, 8207>>,
        <<8232, 8239>>, <<8287, 8303>>, <<8306, 8307>>, <<8335, 8335>>, <<8349, 8351>>, <<8385, 8399>>,
        <<8433, 8447>>, <<8588, 8591>>, <<9255, 9279>>, <<9291, 9311>>, <<11124, 11125>>, <<11158, 11158>>,
        <<11508, 11512>>, <<11558, 11558>>, <<11560, 11564>>, <<11566, 11567>>, <<11624, 11630>>, <<11633, 11646>>,
        <<11671, 11679>>, <<11687, 11687>>, <<11695, 11695>>, <<11703, 11703>>, <<11711, 11711>>, <<11719, 11719>>,
        <<11727, 11727>>, <<11735, 11735>>, <<11743, 11743>>, <<11870, 11903>>, <<11930, 11930>>, <<12020, 12031>>,
        <<12246, 12271>>, <<12284, 12288>>, <<12352, 12352>>, <<12439, 12440>>, <<12544, 12548>>, <<12592, 12592>>,
        <<12687, 12687>>, <<12772, 12783>>, <<12831, 12831>>, <<42125, 42127>>, <<42183, 42191>>, <<42540, 42559>>,
        <<42744, 42751>>, <<42955, 42959>>, <<42962, 42962>>, <<42964, 42964>>, <<42970, 42993>>, <<43053, 43055>>,
        <<43066, 43071>>, <<43128, 43135>>, <<43206, 43213>>, <<43226, 43231>>, <<43348, 43358>>, <<43389, 43391>>,
        <<43470, 43470>>, <<43482, 43485>>, <<43519, 43519>>, <<43575, 43583>>, <<43598, 43599>>, <<43610, 43611>>,
        <<43715, 43738>>, <<43767, 43776>>, <<43783, 43784>>, <<43791, 43792>>, <<43799, 43807>>, <<43815, 43815>>,
        <<43823, 43823>>, <<43884, 43887>>, <<44014, 44015>>, <<44026, 44031>>, <<55204, 55215>>, <<55239, 55242>>,
        <<55292, 63743>>, <<64110, 64111>>, <<64218, 64255>>, <<64263, 64274>>, <<64280, 64284>>, <<64311, 64311>>,
        <<64317, 64317>>, <<64319, 64319>>, <<64322, 64322>>, <<64325, 64325>>, <<64451, 64466>>, <<64912, 64913>>,
        <<64968, 64974>>, <<64976, 65007>>, <<65050, 65055>>, <<65107, 65107>>, <<65127, 65127>>, <<65132, 65135>>,
        <<65141, 65141>>, <<65277, 65280>>, <<65471, 65473>>, <<65480, 65481>>, <<65488, 65489>>, <<65496, 65497>>,
        <<65501, 65503>>, <<65511, 65511>>, <<65519, 65531>>, <<65534, 65535>>, <<65548, 65548>>, <<65575, 65575>>,
        <<65595, 65595>>, <<65598, 65598>>, <<65614, 65615>>, <<65630, 65663>>, <<65787, 65791>>, <<65795, 65798>>,
        <<65844, 65846>>, <<65935, 65935>>, <<65949, 65951>>, <<65953, 65999>>, <<66046, 66175>>, <<66205, 66207>>,
        <<66257, 66271>>, <<66300, 66303>>, <<66340, 66348>>, <<66379, 66383>>, <<66427, 66431>>, <<66462, 66462>>,
        <<66500, 66503>>, <<66518, 66559>>, <<66718, 66719>>, <<66730, 66735>>, <<66772, 66775>>, <<66812, 66815>>,
        <<66856, 66863>>, <<66916, 66926>>, <<66939, 66939>>, <<66955, 66955>>, <<66963, 66963>>, <<66966, 66966>>,
        <<66978, 66978>>, <<66994, 66994>>, <<67002, 67002>>, <<67005, 67071>>, <<67383, 67391>>, <<67414, 67423>>,
        <<67432, 67455>>, <<67462, 67462>>, <<67505, 67505>>, <<67515, 67583>>, <<67590, 67591>>, <<67593, 67593>>,
        <<67638, 67638>>, <<67641, 67643>>, <<67645, 67646>>, <<67670, 67670>>, <<67743, 67750>>, <<67760, 67807>>,
        <<67827, 67827>>, <<67830, 67834>>, <<67868, 67870>>, <<67898, 67902>>, <<67904, 67967>>, <<68024, 68027>>,
        <<68048, 68049>>, <<68100, 68100>>, <<68103, 68107>>, <<68116, 68116>>, <<68120, 68120>>, <<68150, 68151>>,
        <<68155, 68158>>, <<68169, 68175>>, <<68185, 68191>>, <<68256, 68287>>, <<68327, 68330>>, <<68343, 68351>>,
        <<68406, 68408>>, <<68438, 68439>>, <<68467, 68471>>, <<68498, 68504>>, <<68509, 68520>>, <<68528, 68607>>,
        <<68681, 68735>>, <<68787, 68799>>, <<68851, 68857>>, <<68904, 68911>>, <<68922, 69215>>, <<69247, 69247>>,
        <<69290, 69290>>, <<69294, 69295>>, <<69298, 69375>>, <<69416, 69423>>, <<69466, 69487>>, <<69514, 69551>>,
        <<69580, 69599>>, <<69623, 69631>>, <<69710, 69713>>, <<69750, 69758>>, <<69821, 69821>>, <<69827, 69839>>,
        <<69865, 69871>>, <<69882, 69887>>, <<69941, 69941>>, <<69960, 69967>>, <<70007, 70015>>, <<70112, 70112>>,
        <<70133, 70143>>, <<70162, 70162>>, <<70207, 70271>>, <<70279, 70279>>, <<70281, 70281>>, <<70286, 70286>>,
        <<70302, 70302>>, <<70314, 70319>>, <<70379, 70383>>, <<70394, 70399>>, <<70404, 70404>>, <<70413, 70414>>,
        <<70417, 70418>>, <<70441, 70441>>, <<70449, 70449>>, <<70452, 70452>>, <<70458, 70458>>, <<70469, 70470>>,
        <<70473, 70474>>, <<70478, 70479>>, <<70481, 70486>>, <<70488, 70492>>, <<70500, 70501>>, <<70509, 70511>>,
        <<70517, 70655>>, <<70748, 70748>>, <<70754, 70783>>, <<70856, 70863>>, <<70874, 71039>>, <<71094, 71095>>,
        <<71134, 71167>>, <<71237, 71247>>, <<71258, 71263>>, <<71277, 71295>>, <<71354, 71359>>, <<71370, 71423>>,
        <<71451, 71452>>, <<71468, 71471>>, <<71495, 71679>>, <<71740, 71839>>, <<71923, 71934>>, <<71943, 71944>>,
        <<71946, 71947>>, <<71956, 71956>>, <<71959, 71959>>, <<71990, 71990>>, <<71993, 71994>>, <<72007, 72015>>,
        <<72026, 72095>>, <<72104, 72105>>, <<72152, 72153>>, <<72165, 72191>>, <<72264, 72271>>, <<72355, 72367>>,
        <<72441, 72703>>, <<72713, 72713>>, <<72759, 72759>>, <<72774, 72783>>, <<72813, 72815>>, <<72848, 72849>>,
        <<72872, 72872>>, <<72887, 72959>>, <<72967, 72967>>, <<72970, 72970>>, <<73015, 73017>>, <<73019, 73019>>,
        <<73022, 73022>>, <<73032, 73039>>, <<73050, 73055>>, <<73062, 73062>>, <<73065, 73065>>, <<73103, 73103>>,
        <<73106, 73106>>, <<73113, 73119>>, <<73130, 73439>>, <<73465, 73647>>, <<73649, 73663>>, <<73714, 73726>>,
        <<74650, 74751>>, <<74863, 74863>>, <<74869, 74879>>, <<75076, 77711>>, <<77811, 77823>>, <<78895, 82943>>,
        <<83527, 92159>>, <<92729, 92735>>, <<92767, 92767>>, <<92778, 92781>>, <<92863, 92863>>, <<92874, 92879>>,
        <<92910, 92911>>, <<92918, 92927>>, <<92998, 93007>>, <<93018, 93018>>, <<93026, 93026>>, <<93048, 93052>>,
        <<93072, 93759>>, <<93851, 93951>>, <<94027, 94030>>, <<94088, 94094>>, <<94112, 94175>>, <<94181, 94191>>,
        <<94194, 94207>>, <<100344, 100351>>, <<101590, 101631>>, <<101641, 110575>>, <<110580, 110580>>, <<110588, 110588>>,
        <<110591, 110591>>, <<110883, 110927>>, <<110931, 110947>>, <<110952, 110959>>, <<111356, 113663>>, <<113771, 113775>>,
        <<113789, 113791>>, <<113801, 113807>>, <<113818, 113819>>, <<113824, 118527>>, <<118574, 118575>>, <<118599, 118607>>,
        <<118724, 118783>>, <<119030, 119039>>, <<119079, 119080>>, <<119155, 119162>>, <<119275, 119295>>, <<119366, 119519>>,
        <<119540, 119551>>, <<119639, 119647>>, <<119673, 119807>>, <<119893, 119893>>, <<119965, 119965>>, <<119968, 119969>>,
        <<119971, 119972>>, <<119975, 119976>>, <<119981, 119981>>, <<119994, 119994>>, <<119996, 119996>>, <<120004, 120004>>,
        <<120070, 120070>>, <<120075, 120076>>, <<120085, 120085>>, <<120093, 120093>>, <<120122, 120122>>, <<120127, 120127>>,
        <<120133, 120133>>, <<120135, 120137>>, <<120145, 120145>>, <<120486, 120487>>, <<120780, 120781>>, <<121484, 121498>>,
        <<121504, 121504>>, <<121520, 122623>>, <<122655, 122879>>, <<122887, 122887>>, <<122905, 122906>>, <<122914, 122914>>,
        <<122917, 122917>>, <<122923, 123135>>, <<123181, 123183>>, <<123198, 123199>>, <<123210, 123213>>, <<123216, 123535>>,
        <<123567, 123583>>, <<123642, 123646>>, <<123648, 124895>>, <<124903, 124903>>, <<124908, 124908>>, <<124911, 124911>>,
        <<124927, 124927>>, <<125125, 125126>>, <<125143, 125183>>, <<125260, 125263>>, <<125274, 125277>>, <<125280, 126064>>,
        <<126133, 126208>>, <<126270, 126463>>, <<126468, 126468>>, <<126496, 126496>>, <<126499, 126499>>, <<126501, 126502>>,
        <<126504, 126504>>, <<126515, 126515>>, <<126520, 126520>>, <<126522, 126522>>, <<126524, 126529>>, <<126531, 126534>>,
        <<126536, 126536>>, <<126538, 126538>>, <<126540, 126540>>, <<126544, 126544>>, <<126547, 126547>>, <<126549, 126550>>,
        <<126552, 126552>>, <<126554, 126554>>, <<126556, 126556>>, <<126558, 126558>>, <<126560, 126560>>, <<126563, 126563>>,
        <<126565, 126566>>, <<126571, 126571>>, <<126579, 126579>>, <<126584, 126584>>, <<126589, 126589>>, <<126591, 126591>>,
        <<126602, 126602>>, <<126620, 126624>>, <<126628, 126628>>, <<126634, 126634>>, <<126652, 126703>>, <<126706, 126975>>,
        <<127020, 127023>>, <<127124, 127135>>, <<127151, 127152>>, <<127168, 127168>>, <<127184, 127184>>, <<127222, 127231>>,
        <<127406, 127461>>, <<127491, 127503>>, <<127548, 127551>>, <<127561, 127567>>, <<127570, 127583>>, <<127590, 127743>>,
        <<128728, 128732>>, <<128749, 128751>>, <<128765, 128767>>, <<128884, 128895>>, <<128985, 128991>>, <<129004, 129007>>,
        <<129009, 129023>>, <<129036, 129039>>, <<129096, 129103>>, <<129114, 129119>>, <<129160, 129167>>, <<129198, 129199>>,
        <<129202, 129279>>, <<129620, 129631>>, <<129646, 129647>>, <<129653, 129655>>, <<129661, 129663>>, <<129671, 129679>>,
        <<129709, 129711>>, <<129723, 129727>>, <<129734, 129743>>, <<129754, 129759>>, <<129768, 129775>>, <<129783, 129791>>,
        <<129939, 129939>>, <<129995, 130031>>, <<130042, 131071>>, <<173792, 173823>>, <<177977, 177983>>, <<178206, 178207>>,
        <<183970, 183983>>, <<191457, 194559>>, <<195102, 196607>>, <<201547, 917759>>, <<918000, 1114111>>>>

\* ------------------------------------------------------------------ str
\* A str of the program is a string of the model, character by character.
\* A character a string literal cannot hold (a control character other than
\* \t \n \f \r, the backtick, every character outside ASCII) is written
\* <U+code point>, the code point in 4 to 6 upper-case hexadecimal digits,
\* and so is the character "<" itself (<U+003C>).

HexDigits == "0123456789ABCDEF"

\* The ASCII characters 32 to 95 and 97 to 126, in the order of their codes
AsciiLow == " !\"#$%&'()*+,-./0123456789:;<=>?@ABCDEFGHIJKLMNOPQRSTUVWXYZ[\\]^_"
AsciiHigh == "abcdefghijklmnopqrstuvwxyz{|}~"

\* The position of the character c in the string abc, 0 when it is not in it
IndexIn(c, abc) ==
    IF \E i \in 1..Len(abc) : SubSeq(abc, i, i) = c
    THEN CHOOSE i \in 1..Len(abc) : SubSeq(abc, i, i) = c
    ELSE 0

IsHex(h) == h # "" /\ \A i \in 1..Len(h) : IndexIn(SubSeq(h, i, i), HexDigits) > 0

\* The number a string of hexadecimal digits writes
RECURSIVE HexVal(_)
HexVal(h) ==
    IF h = "" THEN 0
    ELSE 16 * HexVal(SubSeq(h, 1, Len(h) - 1))
         + IndexIn(SubSeq(h, Len(h), Len(h)), HexDigits) - 1

\* n in hexadecimal digits, at least `width` of them
RECURSIVE ToHex(_, _)
ToHex(n, width) ==
    IF n = 0 /\ width <= 0 THEN ""
    ELSE ToHex(n \div 16, width - 1) \o SubSeq(HexDigits, (n % 16) + 1, (n % 16) + 1)

\* Whether the n characters of s from position i on are <U+...> with n - 4
\* hexadecimal digits
IsEscape(s, i, n) ==
    /\ i + n - 1 <= Len(s)
    /\ SubSeq(s, i, i + 2) = "<U+"
    /\ SubSeq(s, i + n - 1, i + n - 1) = ">"
    /\ IsHex(SubSeq(s, i + 3, i + n - 2))

\* The length of the character of s that starts at position i
CharLen(s, i) ==
    IF SubSeq(s, i, i) # "<" THEN 1
    ELSE IF IsEscape(s, i, 8) THEN 8
    ELSE IF IsEscape(s, i, 9) THEN 9
    ELSE IF IsEscape(s, i, 10) THEN 10
    ELSE 1

\* The characters of s from position i on, in order
RECURSIVE CharsFrom(_, _)
CharsFrom(s, i) ==
    IF i > Len(s) THEN <<>>
    ELSE <<SubSeq(s, i, i + CharLen(s, i) - 1)>> \o CharsFrom(s, i + CharLen(s, i))

\* list(s): the characters of s
Chars(s) == CharsFrom(s, 1)

\* ord(c)
Ord(c) ==
    IF Len(c) > 1 THEN HexVal(SubSeq(c, 4, Len(c) - 1))
    ELSE IF c = "\t" THEN 9
    ELSE IF c = "\n" THEN 10
    ELSE IF c = "\f" THEN 12
    ELSE IF c = "\r" THEN 13
    ELSE IF IndexIn(c, AsciiLow) > 0 THEN 31 + IndexIn(c, AsciiLow)
    ELSE 96 + IndexIn(c, AsciiHigh)

\* chr(n)
Chr(n) ==
    IF n = 9 THEN "\t"
    ELSE IF n = 10 THEN "\n"
    ELSE IF n = 12 THEN "\f"
    ELSE IF n = 13 THEN "\r"
    ELSE IF n = 60 THEN "<U+003C>"
    ELSE IF n >= 32 /\ n <= 95 THEN SubSeq(AsciiLow, n - 31, n - 31)
    ELSE IF n >= 97 /\ n <= 126 THEN SubSeq(AsciiHigh, n - 96, n - 96)
    ELSE "<U+" \o ToHex(n, 4) \o ">"

\* The code points of the characters cs
Ords(cs) == [i \in 1..Len(cs) |-> Ord(cs[i])]

\* "".join(cs)
RECURSIVE Join(_)
Join(cs) == IF cs = <<>> THEN "" ELSE cs[1] \o Join(Tail(cs))

\* The str of the characters with the code points ns
RECURSIVE FromOrds(_)
FromOrds(ns) == IF ns = <<>> THEN "" ELSE Chr(ns[1]) \o FromOrds(Tail(ns))

\* Whether s holds a character written <U+...>
HasEscape(s) == \E i \in 1..Len(s) : SubSeq(s, i, i) = "<" /\ CharLen(s, i) > 1

\* len(s)
PyLen(s) == IF HasEscape(s) THEN Len(Chars(s)) ELSE Len(s)

\* Whether the code point n lies in one of the ranges <<first, last>>
InRanges(n, ranges) ==
    \E i \in 1..Len(ranges) : ranges[i][1] <= n /\ n <= ranges[i][2]

\* c.isspace() for a character c
IsSpace(c) == InRanges(Ord(c), WhitespaceRanges)

\* The characters cs without the white space at their start
RECURSIVE LStripChars(_)
LStripChars(cs) ==
    IF cs # <<>> /\ IsSpace(cs[1]) THEN LStripChars(Tail(cs)) ELSE cs

\* The characters cs without the white space at their end
RECURSIVE RStripChars(_)
RStripChars(cs) ==
    IF cs # <<>> /\ IsSpace(cs[Len(cs)])
    THEN RStripChars(SubSeq(cs, 1, Len(cs) - 1))
    ELSE cs

\* str.strip()
StripWhitespace(s) == Join(RStripChars(LStripChars(Chars(s))))

\* Whether the character with code point n is cased
IsCased(n) ==
    IF n < 128 THEN (n >= 65 /\ n <= 90) \/ (n >= 97 /\ n <= 122)
    ELSE InRanges(n, CasedRanges)

\* Whether the character with code point n is case-ignorable
IsCaseIgnorable(n) == InRanges(n, CaseIgnorableRanges)

\* Whether the run <<first, last, step, offset>> holds the code point n
InRun(n, run) == run[1] <= n /\ n <= run[2] /\ (n - run[1]) % run[3] = 0

\* n moved by the offset of the run of `runs` that holds it, n itself when
\* none does
Mapped(n, runs) ==
    IF \E i \in 1..Len(runs) : InRun(n, runs[i])
    THEN n + runs[CHOOSE i \in 1..Len(runs) : InRun(n, runs[i])][4]
    ELSE n

\* The entry of the code point n in the table `special`, <<>> when it has none
Special(n, special) ==
    IF \E i \in 1..Len(special) : special[i][1] = n
    THEN special[CHOOSE i \in 1..Len(special) : special[i][1] = n][2]
    ELSE <<>>

\* The lower case of the character with code point n, as code points
ToLowerFull(n) ==
    IF n < 128 THEN (IF n >= 65 /\ n <= 90 THEN <<n + 32>> ELSE <<n>>)
    ELSE IF Special(n, LowerSpecial) # <<>> THEN Special(n, LowerSpecial)
    ELSE <<Mapped(n, LowerRuns)>>

\* The title case of the character with code point n, as code points
ToTitleFull(n) ==
    IF n < 128 THEN (IF n >= 97 /\ n <= 122 THEN <<n - 32>> ELSE <<n>>)
    ELSE IF Special(n, TitleSpecial) # <<>> THEN Special(n, TitleSpecial)
    ELSE <<Mapped(n, TitleRuns)>>

\* Walking from position i in direction d (-1 or 1) over the
\* case-ignorable characters of ns: whether a cased character is met
RECURSIVE CasedBeyond(_, _, _)
CasedBeyond(ns, i, d) ==
    IF i < 1 \/ i > Len(ns) THEN FALSE
    ELSE IF IsCaseIgnorable(ns[i]) THEN CasedBeyond(ns, i + d, d)
    ELSE IsCased(ns[i])

\* The lower case of the capital sigma at position i of ns: the final sigma
\* after a cased character and before none
LowerSigma(ns, i) ==
    IF CasedBeyond(ns, i - 1, -1) /\ ~CasedBeyond(ns, i + 1, 1)
    THEN <<962>> ELSE <<963>>

\* One character of str.title(): lower case after a cased character, title
\* case otherwise
TitleChar(ns, i, previous_is_cased) ==
    IF ~previous_is_cased THEN ToTitleFull(ns[i])
    ELSE IF ns[i] = 931 THEN LowerSigma(ns, i)
    ELSE ToLowerFull(ns[i])

\* str.title() of the characters with code points ns, from position i on
RECURSIVE TitleFrom(_, _, _)
TitleFrom(ns, i, previous_is_cased) ==
    IF i > Len(ns) THEN <<>>
    ELSE TitleChar(ns, i, previous_is_cased)
         \o TitleFrom(ns, i + 1, IsCased(ns[i]))

\* s.title()
title(s) == FromOrds(TitleFrom(Ords(Chars(s)), 1, FALSE))

\* ------------------------------------------------------- whole numbers
\* A whole number of any size is the string of its decimal digits.

Digits == <<"0", "1", "2", "3", "4", "5", "6", "7", "8", "9">>
IsDigit(c) == \E i \in 1..10 : Digits[i] = c
DigitVal(c) == (CHOOSE i \in 1..10 : Digits[i] = c) - 1

AllDigits(s) == \A i \in 1..Len(s) : IsDigit(SubSeq(s, i, i))

\* The value of a string of at most nine digits
RECURSIVE NatOf(_)
NatOf(s) ==
    IF Len(s) = 0 THEN 0
    ELSE 10 * NatOf(SubSeq(s, 1, Len(s) - 1)) + DigitVal(SubSeq(s, Len(s), Len(s)))

\* "0" * n
RECURSIVE Zeros(_)
Zeros(n) ==
    IF n <= 0 THEN ""
    ELSE IF n = 1 THEN "0"
    ELSE Zeros(n \div 2) \o Zeros(n - n \div 2)

\* The position of the first digit of s that is not 0, Len(s) + 1 when
\* there is none
FirstNonZero(s) ==
    IF \A i \in 1..Len(s) : SubSeq(s, i, i) = "0" THEN Len(s) + 1
    ELSE CHOOSE i \in 1..Len(s) :
            /\ SubSeq(s, i, i) # "0"
            /\ \A j \in 1..(i - 1) : SubSeq(s, j, j) = "0"

\* The position of the last digit of s that is not 0, 0 when there is none
LastNonZero(s) ==
    IF \A i \in 1..Len(s) : SubSeq(s, i, i) = "0" THEN 0
    ELSE CHOOSE i \in 1..Len(s) :
            /\ SubSeq(s, i, i) # "0"
            /\ \A j \in (i + 1)..Len(s) : SubSeq(s, j, j) = "0"

\* s without the zeros at its start ("" for zero)
Trim(s) == SubSeq(s, FirstNonZero(s), Len(s))

\* s, a number of at most w digits, in exactly w digits
Padded(s, w) == Zeros(w - Len(s)) \o s

RECURSIVE AddSmall(_, _)

\* hi * 10^w + lo, where lo may have more than w digits
Carried(hi, lo, w) ==
    IF Len(lo) <= w THEN hi \o Padded(lo, w)
    ELSE AddSmall(hi, NatOf(SubSeq(lo, 1, Len(lo) - w)))
         \o SubSeq(lo, Len(lo) - w + 1, Len(lo))

\* s + c for a number c of at most nine digits
AddSmall(s, c) ==
    IF c = 0 THEN s
    ELSE IF Len(s) <= 4 THEN ToString(NatOf(s) + c)
    ELSE Carried(SubSeq(s, 1, Len(s) \div 2),
                 AddSmall(SubSeq(s, Len(s) \div 2 + 1, Len(s)), c),
                 Len(s) - Len(s) \div 2)

\* s * n for a number n of at most 65536
RECURSIVE MulSmall(_, _)
MulSmall(s, n) ==
    IF Len(s) <= 4 THEN ToString(NatOf(s) * n)
    ELSE Carried(MulSmall(SubSeq(s, 1, Len(s) \div 2), n),
                 MulSmall(SubSeq(s, Len(s) \div 2 + 1, Len(s)), n),
                 Len(s) - Len(s) \div 2)

\* b^k for a small power
RECURSIVE Pow(_, _)
Pow(b, k) == IF k = 0 THEN 1 ELSE b * Pow(b, k - 1)

\* The element of a set of one element; a value reached through it is
\* computed before it is used
Only(S) == CHOOSE v \in S : TRUE

\* s * b^k for b = 2 (in steps of 2^16) or b = 5 (in steps of 5^6)
RECURSIVE MulPow(_, _, _)
MulPow(s, b, k) ==
    IF k <= (IF b = 2 THEN 16 ELSE 6) THEN MulSmall(s, Pow(b, k))
    ELSE Only({MulPow(half, b, k - k \div 2) : half \in {MulPow(s, b, k \div 2)}})

\* The quotient (in as many digits as s has) and the remainder of
\* (r * 10^Len(s) + s) by n, for r < n <= 2^27
RECURSIVE DivRem(_, _, _)
DivJoin(left, right) == [q |-> left.q \o right.q, r |-> right.r]

DivAfter(left, right, n) == DivJoin(left, DivRem(right, n, left.r))

DivRem(s, n, r) ==
    IF Len(s) = 0 THEN [q |-> "", r |-> r]
    ELSE IF Len(s) = 1
    THEN [q |-> ToString((r * 10 + NatOf(s)) \div n), r |-> (r * 10 + NatOf(s)) % n]
    ELSE DivAfter(DivRem(SubSeq(s, 1, Len(s) \div 2), n, r),
                  SubSeq(s, Len(s) \div 2 + 1, Len(s)), n)

\* The sign of a - b for two numbers written in equally many digits
RECURSIVE CmpDigits(_, _)
CmpHalves(c, a, b) ==
    IF c # 0 THEN c
    ELSE CmpDigits(SubSeq(a, Len(a) \div 2 + 1, Len(a)),
                   SubSeq(b, Len(b) \div 2 + 1, Len(b)))

CmpDigits(a, b) ==
    IF Len(a) <= 4
    THEN (IF NatOf(a) < NatOf(b) THEN -1 ELSE IF NatOf(a) > NatOf(b) THEN 1 ELSE 0)
    ELSE CmpHalves(CmpDigits(SubSeq(a, 1, Len(a) \div 2), SubSeq(b, 1, Len(b) \div 2)),
                   a, b)

\* The sign of a - b for two numbers without zeros at their start
Cmp(a, b) ==
    IF Len(a) < Len(b) THEN -1
    ELSE IF Len(a) > Len(b) THEN 1
    ELSE CmpDigits(a, b)

\* "9" * n
RECURSIVE Nines(_)
Nines(n) ==
    IF n <= 0 THEN ""
    ELSE IF n = 1 THEN "9"
    ELSE Nines(n \div 2) \o Nines(n - n \div 2)

\* s - 1 for s > 0, in as many digits as s has
RECURSIVE SubOne(_)
SubOne(s) ==
    IF Len(s) <= 4 THEN Padded(ToString(NatOf(s) - 1), Len(s))
    ELSE IF FirstNonZero(SubSeq(s, Len(s) \div 2 + 1, Len(s))) > Len(s) - Len(s) \div 2
    THEN SubOne(SubSeq(s, 1, Len(s) \div 2)) \o Nines(Len(s) - Len(s) \div 2)
    ELSE SubSeq(s, 1, Len(s) \div 2) \o SubOne(SubSeq(s, Len(s) \div 2 + 1, Len(s)))

\* Whether the number s is odd
IsOdd(s) == s # "" /\ DigitVal(SubSeq(s, Len(s), Len(s))) % 2 = 1

\* --------------------------------------------------------------- float
\* A Python float is written by its sign and the decimal digits of its
\* repr(): ds holds the significant digits (no zero at either end, "" for
\* zero, "inf" and "nan" for those two) and pt the number of them before
\* the decimal point, so that the value is 0.ds * 10^pt.

Flt(neg, ds, pt) == [t |-> "num", neg |-> neg, ds |-> ds, pt |-> pt]
Inf(neg) == Flt(neg, "inf", 0)
NaN == Flt(FALSE, "nan", 0)
Zero(neg) == Flt(neg, "", 0)

IsFinite(x) == x.ds \notin {"inf", "nan"}
IsZero(x) == x.ds = ""

\* The decimal with the given digits, pt of them before the point
Decimal(neg, digits, pt) ==
    IF FirstNonZero(digits) > Len(digits) THEN Zero(neg)
    ELSE Flt(neg, SubSeq(digits, FirstNonZero(digits), LastNonZero(digits)),
             pt - (FirstNonZero(digits) - 1))

\* n hundredths
Num(n) ==
    IF n < 0 THEN Decimal(TRUE, ToString(-n), Len(ToString(-n)) - 2)
    ELSE Decimal(FALSE, ToString(n), Len(ToString(n)) - 2)

\* A binary64 value m * 2^e: m below 2^53, and at least 2^52 unless
\* e = -1074; m is "" for zero and "inf" beyond the largest double
Two52 == "4503599627370496"
Two53 == "9007199254740992"
MinExp == -1074
MaxExp == 971

RECURSIVE IntBits(_)
IntBits(n) == IF n = 0 THEN 0 ELSE 1 + IntBits(n \div 2)

\* The number of binary digits of the whole number s
RECURSIVE BitLen(_)
BitLen(s) ==
    IF Len(s) <= 9 THEN IntBits(NatOf(s))
    ELSE 27 + BitLen(Trim(DivRem(s, Pow(2, 27), 0).q))

\* floor(s / 2^h), and whether a remainder (or an earlier one) was left
ShiftStep(d, sticky) == [q |-> Trim(d.q), sticky |-> sticky \/ d.r # 0]

RECURSIVE ShiftRight(_, _, _)
ShiftRight(s, h, sticky) ==
    IF h = 0 THEN [q |-> s, sticky |-> sticky]
    ELSE IF h <= 27 THEN ShiftStep(DivRem(s, Pow(2, h), 0), sticky)
    ELSE Only({ShiftRight(half.q, h - h \div 2, half.sticky) :
                  half \in {ShiftRight(s, h \div 2, sticky)}})

\* m * 2^e after the carry of a rounding, with overflow to infinity
Binary(m, e) ==
    IF m = Two53 THEN (IF e + 1 > MaxExp THEN [m |-> "inf", e |-> 0]
                       ELSE [m |-> Two52, e |-> e + 1])
    ELSE IF m = "" THEN [m |-> "", e |-> 0]
    ELSE IF e > MaxExp THEN [m |-> "inf", e |-> 0]
    ELSE [m |-> m, e |-> e]

\* Round-half-even of q to m * 2^e, where `above` tells how the part cut
\* off compares with one half (-1 below, 0 equal, 1 above)
RoundedUp(q, above, e) ==
    IF above > 0 \/ (above = 0 /\ IsOdd(q)) THEN Binary(AddSmall(q, 1), e)
    ELSE Binary(q, e)

\* The double nearest to n / 10^w scaled by 2^j: t is n * 2^j
Quotient(t, w) == IF Len(t) > w THEN SubSeq(t, 1, Len(t) - w) ELSE ""
Remainder(t, w) == IF Len(t) > w THEN SubSeq(t, Len(t) - w + 1, Len(t)) ELSE Padded(t, w)

ScaledUp(t, w, j) ==
    RoundedUp(Quotient(t, w),
              IF w = 0 THEN -1
              ELSE Cmp(Trim(MulSmall(Remainder(t, w), 2)), "1" \o Zeros(w)),
              -j)

\* A whole number of 54 binary digits, given as its half d.q and its last
\* binary digit d.r, rounded half-even to 53 of them and taken times 2^h;
\* `sticky` tells that digits below the last one were cut off before
Halved(d, sticky, h) ==
    RoundedUp(Trim(d.q), IF d.r = 0 THEN -1 ELSE IF sticky THEN 1 ELSE 0, h)

\* The same for the number s.q with the flag s.sticky
ScaledDown(s, h) == Halved(DivRem(s.q, 2, 0), s.sticky, h)

\* For n / 10^w below 1 with z zeros after the point, 2^j0 with
\* j0 = floor(3.321 z) lies between 10^z / 4 and 10^z, so the value
\* times 2^(j0 + 16) has a whole part of 10 to 16 binary digits
Below1Shift(n, w) ==
    ((w - Len(n)) * 3321) \div 1000 + 16

\* No shift goes beyond the exponent of the subnormal doubles
Capped(j) == IF j > -MinExp THEN -MinExp ELSE j

\* n / 10^w rounded to a whole multiple of 2^(-j)
AtShift(n, w, j) == ScaledUp(MulPow(n, 2, j), w, j)

\* n / 10^w below 1: the shift j is corrected so that 53 binary digits
\* are kept
Below1(n, w, j) == AtShift(n, w, Capped(j + 53 - BitLen(Quotient(MulPow(n, 2, j), w))))

\* A whole part of more than 18 digits is first cut by h0 binary
\* digits, which leaves some 56 to 61 of them
FirstCut(digits) == ((digits - 1) * 3321) \div 1000 - 56

\* s.q * 2^h rounded to 53 binary digits, by way of 54 of them
CutTo54(s, h) == ScaledDown(ShiftRight(s.q, BitLen(s.q) - 54, s.sticky), h + BitLen(s.q) - 53)

\* n / 10^w with a whole part of `bits` binary digits, at most 18
\* decimal ones
AtBits(n, w, bits) ==
    IF bits <= 53 THEN AtShift(n, w, 53 - bits)
    ELSE CutTo54([q |-> Quotient(n, w), sticky |-> FirstNonZero(Remainder(n, w)) <= w], 0)

\* The double nearest to n / 10^w for a whole number n > 0
ToBinary(n, w) ==
    IF Len(n) - w > 18
    THEN CutTo54(ShiftRight(Quotient(n, w), FirstCut(Len(n) - w),
                            FirstNonZero(Remainder(n, w)) <= w),
                 FirstCut(Len(n) - w))
    ELSE IF Len(n) > w THEN AtBits(n, w, BitLen(Quotient(n, w)))
    ELSE Below1(n, w, Below1Shift(n, w))

\* The double nearest to the decimal 0.ds * 10^pt, ds not empty
ToDouble(ds, pt) ==
    IF pt > 310 THEN [m |-> "inf", e |-> 0]
    ELSE IF pt < -330 THEN [m |-> "", e |-> 0]
    ELSE IF pt >= Len(ds) THEN ToBinary(ds \o Zeros(pt - Len(ds)), 0)
    ELSE ToBinary(ds, Len(ds) - pt)

\* How the digits of s from position i on compare with one half of a
\* unit of the digit before them
AgainstHalf(s, i) ==
    IF i > Len(s) THEN -1
    ELSE IF DigitVal(SubSeq(s, i, i)) > 5 THEN 1
    ELSE IF DigitVal(SubSeq(s, i, i)) < 5 THEN -1
    ELSE IF FirstNonZero(SubSeq(s, i + 1, Len(s))) <= Len(s) - i THEN 1
    ELSE 0

\* The first n digits of the expansion x, and the next decimal of n
\* digits above them
Down(x, n) == [ds |-> SubSeq(x.ds, 1, n), pt |-> x.pt]
UpFrom(sum, n, pt) ==
    IF Len(sum) > n THEN [ds |-> "1", pt |-> pt + 1]
    ELSE [ds |-> SubSeq(sum, 1, LastNonZero(sum)), pt |-> pt]

\* The decimal of n digits next above the first n digits of x
Up(x, n) == UpFrom(AddSmall(SubSeq(x.ds, 1, n), 1), n, x.pt)

\* d without zeros at its end
Trimmed(d) == [ds |-> SubSeq(d.ds, 1, LastNonZero(d.ds)), pt |-> d.pt]

\* The sign of a - b for two decimals without zeros at their start
CmpDecimal(a, b) ==
    IF a.pt < b.pt THEN -1
    ELSE IF a.pt > b.pt THEN 1
    ELSE IF Len(a.ds) < Len(b.ds)
    THEN CmpDigits(a.ds \o Zeros(Len(b.ds) - Len(a.ds)), b.ds)
    ELSE CmpDigits(a.ds, b.ds \o Zeros(Len(a.ds) - Len(b.ds)))

\* The decimals that read as the double b lie between the midpoints to
\* its two neighbours, the midpoints included when m is even; below a
\* power of two the neighbour is at half the distance
Pointed2(digits, e) == [ds |-> Trim(digits), pt |-> Len(Trim(digits)) + e]

\* The decimal expansion of m * 2^e
ExpansionOf(m, e) ==
    IF e >= 0 THEN Pointed2(MulPow(m, 2, e), 0)
    ELSE Pointed2(MulPow(m, 5, -e), e)

\* The two midpoints of the double b, and whether they read as b
Midpoints(b) ==
    [lo |-> IF b.m = Two52 /\ b.e > MinExp
            THEN ExpansionOf(SubOne(MulSmall(b.m, 4)), b.e - 2)
            ELSE ExpansionOf(SubOne(MulSmall(b.m, 2)), b.e - 1),
     hi |-> ExpansionOf(AddSmall(MulSmall(b.m, 2), 1), b.e - 1),
     closed |-> ~IsOdd(b.m)]

\* Whether the decimal d lies between the midpoints mid
Inside(c, closed) == c < 0 \/ (c = 0 /\ closed)

ReadsAs(d, mid) ==
    /\ Inside(CmpDecimal(mid.lo, d), mid.closed)
    /\ Inside(CmpDecimal(d, mid.hi), mid.closed)

\* The two decimals of n digits around x, the nearer one first (the even
\* one on a tie)
NearFirst(x, n) ==
    IF AgainstHalf(x.ds, n + 1) > 0
       \/ (AgainstHalf(x.ds, n + 1) = 0 /\ IsOdd(SubSeq(x.ds, 1, n)))
    THEN <<Up(x, n), Down(x, n)>>
    ELSE <<Down(x, n), Up(x, n)>>

\* The shortest decimal that reads as the double with the exact value x
\* and the midpoints mid, the nearest one among those of that length
RECURSIVE Shortest(_, _, _)
ShortestOf(pair, x, mid, n) ==
    IF ReadsAs(pair[1], mid) THEN Trimmed(pair[1])
    ELSE IF ReadsAs(pair[2], mid) THEN Trimmed(pair[2])
    ELSE Shortest(x, mid, n + 1)

Shortest(x, mid, n) ==
    IF Len(x.ds) <= n THEN x
    ELSE ShortestOf(NearFirst(x, n), x, mid, n)

\* The exact decimal value of the double b
Exact(b) == Trimmed(ExpansionOf(b.m, b.e))

\* The float of the double b with the sign neg, written as repr() does
Signed(neg, d) == Flt(neg, d.ds, d.pt)

FromBinary(neg, b) ==
    IF b.m = "inf" THEN Inf(neg)
    ELSE IF b.m = "" THEN Zero(neg)
    ELSE Signed(neg, Shortest(Exact(b), Midpoints(b), 1))

\* Decimals of at most 15 digits in this range are doubles' reprs
IsShort(d) == Len(d.ds) <= 15 /\ d.pt > -290 /\ d.pt < 290

\* The float that the decimal d is read as
Rounded(d) ==
    IF IsZero(d) \/ IsShort(d) THEN d
    ELSE FromBinary(d.neg, ToDouble(d.ds, d.pt))

\* float(str): the text is taken as code points; beyond ASCII a
\* whitespace character counts as a blank and a decimal digit as its
\* ASCII digit, and nothing else is allowed there
DecimalOf(n) ==
    IF \E z \in DecimalZeros : z <= n /\ n <= z + 9
    THEN 48 + n - (CHOOSE z \in DecimalZeros : z <= n /\ n <= z + 9)
    ELSE 63

\* The code point float() reads for the code point n (63, '?', for one
\* that is not allowed)
ToAscii(n) ==
    IF n < 127 THEN n
    ELSE IF InRanges(n, WhitespaceRanges) THEN 32
    ELSE DecimalOf(n)

\* The blanks float() strips from both ends
AsciiSpace == {9, 10, 11, 12, 13, 32}
IsDigitCode(n) == n >= 48 /\ n <= 57

FirstNot(ns, set) ==
    IF \A i \in 1..Len(ns) : ns[i] \in set THEN Len(ns) + 1
    ELSE CHOOSE i \in 1..Len(ns) : ns[i] \notin set /\ \A j \in 1..(i - 1) : ns[j] \in set

LastNot(ns, set) ==
    IF \A i \in 1..Len(ns) : ns[i] \in set THEN 0
    ELSE CHOOSE i \in 1..Len(ns) :
            ns[i] \notin set /\ \A j \in (i + 1)..Len(ns) : ns[j] \in set

Stripped(ns) == SubSeq(ns, FirstNot(ns, AsciiSpace), LastNot(ns, AsciiSpace))

\* An underscore may stand between two digits only
UnderscoresOk(ns) ==
    \A i \in 1..Len(ns) :
        ns[i] = 95 => /\ i > 1 /\ i < Len(ns)
                      /\ IsDigitCode(ns[i - 1]) /\ IsDigitCode(ns[i + 1])

NotUnderscore(n) == n # 95
WithoutUnderscores(ns) == SelectSeq(ns, NotUnderscore)

LowerCode(n) == IF n >= 65 /\ n <= 90 THEN n + 32 ELSE n
Lowered(ns) == [i \in 1..Len(ns) |-> LowerCode(ns[i])]

\* The last position of the run of digits that starts at `from`
\* (from - 1 when there is none)
RunEnd(ns, from) ==
    CHOOSE j \in (from - 1)..Len(ns) :
        /\ \A k \in from..j : IsDigitCode(ns[k])
        /\ (j = Len(ns) \/ ~IsDigitCode(ns[j + 1]))

\* The digits with the code points ns, as a string
DigitsOf(ns) == Join([i \in 1..Len(ns) |-> Digits[ns[i] - 47]])

HasSign(ns) == Len(ns) > 0 /\ ns[1] \in {43, 45}
Unsigned(ns) == IF HasSign(ns) THEN SubSeq(ns, 2, Len(ns)) ELSE ns

\* The exponent written by the digits s, out of range beyond six digits
ExponentOf(neg, s) ==
    IF Len(Trim(s)) > 6 THEN (IF neg THEN -999999 ELSE 999999)
    ELSE IF neg THEN -NatOf(Trim(s)) ELSE NatOf(Trim(s))

\* The end of the fraction, given the end a of the whole part
FractionEnd(ns, a) ==
    IF a < Len(ns) /\ ns[a + 1] = 46 THEN RunEnd(ns, a + 2) ELSE a

\* Whether ns from position b + 1 on is an exponent part or nothing
ExponentOk(ns, b) ==
    \/ b = Len(ns)
    \/ /\ ns[b + 1] \in {69, 101}
       /\ RunEnd(Unsigned(SubSeq(ns, b + 2, Len(ns))), 1) >= 1
       /\ RunEnd(Unsigned(SubSeq(ns, b + 2, Len(ns))), 1)
            = Len(Unsigned(SubSeq(ns, b + 2, Len(ns))))

\* The exponent written after position b (0 when none is written)
ExponentAt(ns, b) ==
    IF b = Len(ns) THEN 0
    ELSE ExponentOf(HasSign(SubSeq(ns, b + 2, Len(ns))) /\ ns[b + 2] = 45,
                    DigitsOf(Unsigned(SubSeq(ns, b + 2, Len(ns)))))

\* The digits of the whole part (up to a) and of the fraction (up to b)
MantissaDigits(ns, a, b) ==
    DigitsOf(SubSeq(ns, 1, a)) \o DigitsOf(SubSeq(ns, a + 2, b))

\* The float written by ns, whose whole part ends at a and whose fraction
\* ends at b: ValueError without any digit or with anything but an
\* exponent after b
NumberAt(neg, ns, a, b) ==
    IF (a = 0 /\ b <= a + 1) \/ ~ExponentOk(ns, b) THEN Raise("ValueError")
    ELSE Ret(Rounded(Decimal(neg, MantissaDigits(ns, a, b), a + ExponentAt(ns, b))))

\* float() of the text ns without its sign: inf, infinity and nan in any
\* case, or a number
UnsignedFloat(neg, ns) ==
    IF Lowered(ns) \in {<<105, 110, 102>>, <<105, 110, 102, 105, 110, 105, 116, 121>>}
    THEN Ret(Inf(neg))
    ELSE IF Lowered(ns) = <<110, 97, 110>> THEN Ret(NaN)
    ELSE NumberAt(neg, ns, RunEnd(ns, 1), FractionEnd(ns, RunEnd(ns, 1)))

\* float() of the stripped text ns without underscores
SignedFloat(ns) == UnsignedFloat(HasSign(ns) /\ ns[1] = 45, Unsigned(ns))

\* float() of the stripped text ns
AsciiFloat(ns) ==
    IF ~UnderscoresOk(ns) THEN Raise("ValueError")
    ELSE SignedFloat(WithoutUnderscores(ns))

\* float(s) for a str s
StrToFloat(s) == AsciiFloat(Stripped([i \in 1..Len(Ords(Chars(s))) |-> ToAscii(Ords(Chars(s))[i])]))

\* The exponent part of repr() of a float: a sign and at least two digits
Exponent(e) ==
    (IF e < 0 THEN "-" ELSE "+")
    \o (IF e > -10 /\ e < 10 THEN "0" ELSE "")
    \o ToString(IF e < 0 THEN -e ELSE e)

\* 0.ds * 10^pt written without an exponent
Plain(ds, pt) ==
    IF pt <= 0 THEN "0." \o Zeros(-pt) \o ds
    ELSE IF pt >= Len(ds) THEN ds \o Zeros(pt - Len(ds)) \o ".0"
    ELSE SubSeq(ds, 1, pt) \o "." \o SubSeq(ds, pt + 1, Len(ds))

\* 0.ds * 10^pt written with an exponent
Scientific(ds, pt) ==
    SubSeq(ds, 1, 1)
    \o (IF Len(ds) > 1 THEN "." \o SubSeq(ds, 2, Len(ds)) ELSE "")
    \o "e" \o Exponent(pt - 1)

\* repr(x) and str(x) of a float x
FloatStr(x) ==
    IF x.ds = "nan" THEN "nan"
    ELSE (IF x.neg THEN "-" ELSE "")
         \o (IF x.ds = "inf" THEN "inf"
             ELSE IF x.ds = "" THEN "0.0"
             ELSE IF x.pt > -4 /\ x.pt <= 16 THEN Plain(x.ds, x.pt)
             ELSE Scientific(x.ds, x.pt))

\* format(x, ".2f"): the exact value of the double, rounded half-even
\* to hundredths
Hundredths(d) ==
    IF d.pt + 2 < 0 THEN ""
    ELSE IF d.pt + 2 >= Len(d.ds) THEN d.ds \o Zeros(d.pt + 2 - Len(d.ds))
    ELSE IF AgainstHalf(d.ds, d.pt + 3) > 0
            \/ (AgainstHalf(d.ds, d.pt + 3) = 0 /\ IsOdd(SubSeq(d.ds, 1, d.pt + 2)))
    THEN AddSmall(SubSeq(d.ds, 1, d.pt + 2), 1)
    ELSE SubSeq(d.ds, 1, d.pt + 2)

\* h hundredths written with two decimal places
TwoPlaces(h) ==
    IF Len(h) < 3 THEN "0." \o Padded(h, 2)
    ELSE SubSeq(h, 1, Len(h) - 2) \o "." \o SubSeq(h, Len(h) - 1, Len(h))

\* Whether the decimal of repr() rounds to hundredths as the double does
RoundsAsWritten(x) ==
    IF Len(x.ds) - x.pt <= 2 THEN x.pt <= 13
    ELSE IF x.pt + 2 < 0 THEN Len(x.ds) <= 15
    ELSE Len(x.ds) <= 15 /\ AgainstHalf(x.ds, x.pt + 3) # 0

\* f"{x:.2f}" of a float x
Fmt2Float(x) ==
    IF x.ds = "nan" THEN "nan"
    ELSE (IF x.neg THEN "-" ELSE "")
         \o (IF x.ds = "inf" THEN "inf"
             ELSE IF x.ds = "" THEN "0.00"
             ELSE IF RoundsAsWritten(x) THEN TwoPlaces(Hundredths(x))
             ELSE TwoPlaces(Hundredths(Exact(ToDouble(x.ds, x.pt)))))

\* float(i) of an int i
IntFloat(i) ==
    IF i < 0 THEN Rounded(Decimal(TRUE, ToString(-i), Len(ToString(-i))))
    ELSE Rounded(Decimal(FALSE, ToString(i), Len(ToString(i))))

\* f"{x:.2f}" of a float, an int or a bool
Fmt2(x) ==
    CASE x.t = "num" -> Fmt2Float(x)
      [] x.t = "int" -> Fmt2Float(IntFloat(x.i))
      [] x.t = "bool" -> Fmt2Float(IF x.b THEN Num(100) ELSE Num(0))

\* ------------------------------------------------------------ Python values

PyNone == [t |-> "none"]
Str(s) == [t |-> "str", s |-> s]
Bool(b) == [t |-> "bool", b |-> b]
Pair(lat, lon) == [t |-> "tuple", lat |-> lat, lon |-> lon]
List(l) == [t |-> "list", l |-> l]
PyInt(i) == [t |-> "int", i |-> i]

\* The keys of the items from position i on that no item before them has,
\* in the order of the items
RECURSIVE KeysFrom(_, _)
KeysFrom(items, i) ==
    IF i > Len(items) THEN <<>>
    ELSE IF \E j \in 1..(i - 1) : items[j][1] = items[i][1]
    THEN KeysFrom(items, i + 1)
    ELSE <<items[i][1]>> \o KeysFrom(items, i + 1)

\* The dict that holds the items, a sequence of <<key, value>>, inserted in
\* that order, as a dict display, json.loads and yaml.safe_load build it:
\* {'b': 1, 'a': 2} is Dict(<<<<"b", PyInt(1)>>, <<"a", PyInt(2)>>>>).  d is
\* the value of each key (the last one given for it) and keys are the keys
\* in insertion order (a key given twice keeps its first place).
Dict(items) ==
    [t |-> "dict",
     d |-> [key \in {items[i][1] : i \in 1..Len(items)} |->
              items[CHOOSE i \in 1..Len(items) :
                        /\ items[i][1] = key
                        /\ \A j \in (i + 1)..Len(items) : items[j][1] # key][2]],
     keys |-> KeysFrom(items, 1)]

\* The mapping without keys
NoKey == [key \in {} |-> PyNone]

\* bool(v): Python truthiness, as used by "if city:", "if coords:", ...
Truthy(v) ==
    CASE v.t = "none" -> FALSE
      [] v.t = "str" -> v.s # ""
      [] v.t = "num" -> ~IsZero(v)
      [] v.t = "int" -> v.i # 0
      [] v.t = "bool" -> v.b
      [] v.t = "tuple" -> TRUE
      [] v.t = "dict" -> DOMAIN v.d # {}
      [] v.t = "list" -> v.l # <<>>
      [] OTHER -> TRUE

\* v == 0.0
PyEqZero(v) ==
    CASE v.t = "num" -> IsZero(v)
      [] v.t = "int" -> v.i = 0
      [] v.t = "bool" -> ~v.b
      [] OTHER -> FALSE

\* dict.get(key, default)
DictGet(d, key, default) == IF key \in DOMAIN d THEN d[key] ELSE default

\* float(v)
Float(v) ==
    CASE v.t = "num" -> Ret(v)
      [] v.t = "int" -> Ret(IntFloat(v.i))
      [] v.t = "bool" -> Ret(IF v.b THEN Num(100) ELSE Num(0))
      [] v.t = "str" -> StrToFloat(v.s)
      [] OTHER -> Raise("TypeError")

\* ------------------------------------------------------------------ repr()

LowerHexDigits == "0123456789abcdef"

\* n in lower-case hexadecimal digits, `width` of them, as code points
RECURSIVE HexCodes(_, _)
HexCodes(n, width) ==
    IF width = 0 THEN <<>>
    ELSE HexCodes(n \div 16, width - 1)
         \o <<Ord(SubSeq(LowerHexDigits, (n % 16) + 1, (n % 16) + 1))>>

\* Whether repr() writes the character with code point n as it is
IsPrintable(n) == ~InRanges(n, NonPrintableRanges)

\* repr() of one character of a str written between the quotes `quote`
ReprChar(n, quote) ==
    IF n = quote \/ n = 92 THEN <<92, n>>
    ELSE IF n = 9 THEN <<92, 116>>
    ELSE IF n = 10 THEN <<92, 110>>
    ELSE IF n = 13 THEN <<92, 114>>
    ELSE IF n < 32 \/ n = 127 THEN <<92, 120>> \o HexCodes(n, 2)
    ELSE IF n < 127 \/ IsPrintable(n) THEN <<n>>
    ELSE IF n < 256 THEN <<92, 120>> \o HexCodes(n, 2)
    ELSE IF n < 65536 THEN <<92, 117>> \o HexCodes(n, 4)
    ELSE <<92, 85>> \o HexCodes(n, 8)

\* The characters ns from position i on, each as repr() writes it
RECURSIVE ReprChars(_, _, _)
ReprChars(ns, i, quote) ==
    IF i > Len(ns) THEN <<>>
    ELSE ReprChar(ns[i], quote) \o ReprChars(ns, i + 1, quote)

\* The quote repr() puts around ns: the double quote when ns holds a single
\* quote and no double quote
QuoteOf(ns) ==
    IF (\E i \in 1..Len(ns) : ns[i] = 39) /\ ~(\E i \in 1..Len(ns) : ns[i] = 34)
    THEN 34 ELSE 39

ReprQuoted(ns, quote) == FromOrds(<<quote>> \o ReprChars(ns, 1, quote) \o <<quote>>)

\* repr(s) of a str
ReprStr(s) == ReprQuoted(Ords(Chars(s)), QuoteOf(Ords(Chars(s))))

\* ", ".join(parts)
RECURSIVE JoinComma(_)
JoinComma(parts) ==
    IF parts = <<>> THEN ""
    ELSE IF Len(parts) = 1 THEN parts[1]
    ELSE parts[1] \o ", " \o JoinComma(Tail(parts))

\* repr(v)
RECURSIVE Repr(_)
Repr(v) ==
    CASE v.t = "none" -> "None"
      [] v.t = "str" -> ReprStr(v.s)
      [] v.t = "num" -> FloatStr(v)
      [] v.t = "int" -> ToString(v.i)
      [] v.t = "bool" -> (IF v.b THEN "True" ELSE "False")
      [] v.t = "tuple" -> "(" \o Repr(v.lat) \o ", " \o Repr(v.lon) \o ")"
      [] v.t = "list" -> "[" \o JoinComma([i \in 1..Len(v.l) |-> Repr(v.l[i])]) \o "]"
      [] v.t = "dict" ->
            "{" \o JoinComma([i \in 1..Len(v.keys) |->
                                ReprStr(v.keys[i]) \o ": " \o Repr(v.d[v.keys[i]])])
            \o "}"
      [] v.t = "Location" ->
            "Location(value=" \o Repr(v.value) \o ", description="
            \o ReprStr(v.description) \o ")"

\* str(v), as an f-string formats a value
PyStr(v) == IF v.t = "str" THEN v.s ELSE Repr(v)

\* ------------------------------------------------------------- subscripts

\* v[key] for a str key
GetItem(v, key) ==
    IF v.t = "dict"
    THEN IF key \in DOMAIN v.d THEN Ret(v.d[key]) ELSE Raise("KeyError")
    ELSE Raise("TypeError")

\* v[0]
GetFirst(v) ==
    CASE v.t = "list" -> (IF v.l = <<>> THEN Raise("IndexError") ELSE Ret(v.l[1]))
      [] v.t = "str" -> (IF v.s = "" THEN Raise("IndexError")
                         ELSE Ret(Str(Chars(v.s)[1])))
      [] v.t = "tuple" -> Ret(v.lat)
      [] v.t = "dict" -> Raise("KeyError")
      [] OTHER -> Raise("TypeError")

\* r[key] where r is the outcome of the expression before the subscript
ThenItem(r, key) == IF r.k = "raise" THEN r ELSE GetItem(r.v, key)

\* r[0]
ThenFirst(r) == IF r.k = "raise" THEN r ELSE GetFirst(r.v)

\* r.title()
ThenTitle(r) ==
    IF r.k = "raise" THEN r
    ELSE IF r.v.t = "str" THEN Ret(Str(title(r.v.s)))
    ELSE Raise("AttributeError")

\* Faulty variant of FloatPair: the pair is built (lon, lat)
FloatPair_swapped(flat, flon) ==
    IF flat.k = "raise" THEN flat
    ELSE IF flon.k = "raise" THEN flon
    ELSE Ret(Pair(flon.v, flat.v))

\* (float(lat), float(lon)) from the outcomes of the two conversions
FloatPair(flat, flon) ==
    IF flat.k = "raise" THEN flat
    ELSE IF flon.k = "raise" THEN flon
    ELSE Ret(Pair(flat.v, flon.v))

\* ------------------------------------------------------------------- Config

\* The position of the first "." of s, 0 when there is none
DotAt(s) ==
    IF \E i \in 1..Len(s) : SubSeq(s, i, i) = "."
    THEN CHOOSE i \in 1..Len(s) :
             /\ SubSeq(s, i, i) = "."
             /\ \A j \in 1..(i - 1) : SubSeq(s, j, j) # "."
    ELSE 0

\* key.split("."): the dot-separated parts of a key
RECURSIVE Split(_)
Split(key) ==
    LET dot == DotAt(key)
    IN  IF dot = 0 THEN <<key>>
        ELSE <<SubSeq(key, 1, dot - 1)>> \o Split(SubSeq(key, dot + 1, Len(key)))

\* The walk of Config.get over the parts of the key
RECURSIVE ConfigWalk(_, _, _)
ConfigWalk(value, keys, default) ==
    IF keys = <<>> THEN value
    ELSE IF value.t = "dict" /\ Head(keys) \in DOMAIN value.d
         THEN ConfigWalk(value.d[Head(keys)], Tail(keys), default)
         ELSE default

\* Config.get(key, default) over the loaded _config_data
Config_get(data, key, default) == ConfigWalk(data, Split(key), default)

DEFAULT_CITY_CONFIG_KEY == "defaults.city"

OPENWEATHER_CONFIG_KEY == "api.openweather.key"

\* env_var_map of get_api_key: the environment variable of each service
env_var_map == "openweather" :> "OPENWEATHER_API_KEY"

\* os.getenv(name) over os.environ, a mapping of names to strings
os_getenv(environ, name) == DictGet(environ, name, PyNone)

\* Faulty variant of ApiConfigKey: the key of the openweather service for
\* every service
ApiConfigKey_openweather(service) == OPENWEATHER_CONFIG_KEY

\* config_key = f"api.{service}.key"
ApiConfigKey(service) == "api." \o service \o ".key"

\* "if env_var:" and "if env_value:" of get_api_key: the environment gives
\* the key of the service
EnvGives(service, environ) ==
    /\ service \in DOMAIN env_var_map
    /\ Truthy(os_getenv(environ, env_var_map[service]))

\* Faulty variant of get_api_key: a stand-in key when none is configured
get_api_key_stand_in(service, environ, data) ==
    IF EnvGives(service, environ) THEN os_getenv(environ, env_var_map[service])
    ELSE Config_get(data, ApiConfigKey(service), Str("demo"))

\* Config.get_api_key(service) over os.environ and the loaded
\* configuration: the environment first, then the configuration file
get_api_key(service, environ, data) ==
    IF EnvGives(service, environ) THEN os_getenv(environ, env_var_map[service])
    ELSE Config_get(data, ApiConfigKey(service), PyNone)

\* Faulty variant of get_default_city: a misspelt configuration key
get_default_city_wrong_key(data) == Config_get(data, "default.city", PyNone)

\* Config.get_default_city()
get_default_city(data) == Config_get(data, DEFAULT_CITY_CONFIG_KEY, PyNone)

\* config.yaml as Config() meets it:
\*   file.exists  config_path.exists()
\*   file.open    the exception open() raises, "" when it opens the file
\*   file.load    the outcome of yaml.safe_load(file)
ConfigFile(exists, open, load) == [exists |-> exists, open |-> open, load |-> load]

\* No config.yaml in the current directory
NoConfigFile == ConfigFile(FALSE, "", Ret(PyNone))

\* A config.yaml that yaml.safe_load reads as the value v
Loadable(v) == ConfigFile(TRUE, "", Ret(v))

\* "self._config_data = yaml.safe_load(file) or {}" and the call of
\* self._config_data.keys() on the line after it
ConfigDataOf(loaded) ==
    IF ~Truthy(loaded) THEN Ret(Dict(<<>>))
    ELSE IF loaded.t = "dict" THEN Ret(loaded)
    ELSE Raise("AttributeError")

\* The try block of _load_config
LoadBody(file) ==
    IF file.open # "" THEN Raise(file.open)
    ELSE IF file.load.k = "raise" THEN file.load
    ELSE ConfigDataOf(file.load.v)

\* Config._load_config, and with it Config(): the _config_data it leaves,
\* or the exception it raises
_load_config(file) ==
    IF ~file.exists THEN Ret(Dict(<<>>))
    ELSE Catch(LoadBody(file), {"YAMLError", "OSError"}, Raise("ValueError"))

\* ----------------------------------------------------------------- Location

\* Location.from_city(city)
from_city(city) ==
    [t |-> "Location", value |-> city, description |-> "city " \o PyStr(city)]

\* Location.from_coordinates(lat, lon)
from_coordinates(lat, lon) ==
    [t |-> "Location", value |-> Pair(lat, lon),
     description |-> "coordinates " \o Fmt2(lat) \o ", " \o Fmt2(lon)]

\* Location.is_coordinates
is_coordinates(loc) == loc.value.t = "tuple"

\* ------------------------------------------------------ IP geolocation layer

IPAPI_BASE_URL == "https://ipapi.co/json/"
USER_AGENT == "weather-cli/1.0"
API_TIMEOUT == 10

\* A keyword argument the call does not pass
NotPassed == [t |-> "notpassed"]

\* The call requests.get(url, params=..., headers=..., timeout=...)
requests_get(url, params, headers, timeout) ==
    [method |-> "GET", url |-> url, params |-> params, headers |-> headers,
     timeout |-> timeout]

\* Faulty variant of MakeRequestCall: the timeout is not passed on
MakeRequestCall_no_timeout(base_url, params, headers) ==
    requests_get(base_url,
                 IF Truthy(params) THEN params ELSE Dict(<<>>),
                 IF Truthy(headers) THEN headers ELSE Dict(<<>>),
                 NotPassed)

\* The request BaseAPIService._make_request(params, headers) issues for a
\* service constructed with base_url
MakeRequestCall(base_url, params, headers) ==
    requests_get(base_url,
                 IF Truthy(params) THEN params ELSE Dict(<<>>),
                 IF Truthy(headers) THEN headers ELSE Dict(<<>>),
                 PyInt(API_TIMEOUT))

\* The request of _get_ip_location and get_location_info: a LocationService
\* is constructed with IPAPI_BASE_URL and passes the User-Agent header only
IpRequest ==
    MakeRequestCall(IPAPI_BASE_URL, PyNone, Dict(<<<<"User-Agent", Str(USER_AGENT)>>>>))

\* Whether raise_for_status() raises HTTPError for the status code
IsErrorStatus(status_code) == status_code >= 400 /\ status_code < 600

\* BaseAPIService._make_request on a response resp of the transport:
\*   resp.get_exc  the exception requests.get raises, "" when it returns
\*   resp.status   the status code of the response requests.get returns
\*   resp.json     the outcome of response.json()
_make_request(resp) ==
    IF resp.get_exc # "" THEN Raise(resp.get_exc)
    ELSE IF IsErrorStatus(resp.status) THEN Raise("requests.HTTPError")
    ELSE resp.json

\* _get_ip_location on the parsed payload location_data (a dict): the
\* error flag, then the two coordinate fields
IpCoordinates(location_data) ==
    IF Truthy(DictGet(location_data, "error", PyNone)) THEN Ret(PyNone)
    ELSE IF \/ DictGet(location_data, "latitude", PyNone) = PyNone
            \/ DictGet(location_data, "longitude", PyNone) = PyNone
         THEN Ret(PyNone)
    ELSE FloatPair(Float(location_data["latitude"]),
                   Float(location_data["longitude"]))

\* location_data.get(...) on the outcome r of _make_request: a payload that
\* is no dict has no get
IpLocationOf(r) ==
    IF r.k = "raise" THEN r
    ELSE IF r.v.t # "dict" THEN Raise("AttributeError")
    ELSE IpCoordinates(r.v.d)

\* The body of the try block of _get_ip_location
IpLocationBody(resp) == IpLocationOf(_make_request(resp))

\* Faulty variant of _get_ip_location: only requests.RequestException is
\* caught, as the docstring of get_current_location still announces
_get_ip_location_request_only(resp) ==
    Catch(IpLocationBody(resp), {"RequestException"}, Ret(PyNone))

\* LocationService._get_ip_location: the body under "except Exception"
_get_ip_location(resp) == Catch(IpLocationBody(resp), {"Exception"}, Ret(PyNone))

\* The dict get_location_info returns for the payload location_data
InfoFields(location_data) ==
    Dict(<<<<"city", DictGet(location_data, "city", Str("Unknown"))>>,
           <<"region", DictGet(location_data, "region", Str("Unknown"))>>,
           <<"country", DictGet(location_data, "country_name", Str("Unknown"))>>,
           <<"country_code", DictGet(location_data, "country", Str("Unknown"))>>,
           <<"timezone", DictGet(location_data, "timezone", Str("Unknown"))>>>>)

\* get_location_info on the outcome r of _make_request
InfoOf(r) ==
    IF r.k = "raise" THEN r
    ELSE IF r.v.t # "dict" THEN Raise("AttributeError")
    ELSE IF Truthy(DictGet(r.v.d, "error", PyNone)) THEN Ret(PyNone)
    ELSE Ret(InfoFields(r.v.d))

\* Faulty variant of get_location_info: country and country_code filled
\* from each other's field
get_location_info_swapped(resp) ==
    IF InfoOf(_make_request(resp)).k = "ret"
       /\ InfoOf(_make_request(resp)).v # PyNone
    THEN Ret([InfoOf(_make_request(resp)).v EXCEPT
                !.d["country"] = InfoOf(_make_request(resp)).v.d["country_code"],
                !.d["country_code"] = InfoOf(_make_request(resp)).v.d["country"]])
    ELSE Catch(InfoOf(_make_request(resp)),
               {"RequestException", "ValueError", "KeyError"}, Ret(PyNone))

\* LocationService.get_location_info: the body under
\* "except (requests.RequestException, ValueError, KeyError)"
get_location_info(resp) ==
    Catch(InfoOf(_make_request(resp)),
          {"RequestException", "ValueError", "KeyError"}, Ret(PyNone))

\* ------------------------------------------------- native positioning layer

\* A native strategy runs against the answers `os` of the platform's
\* location API and yields [out, trace]: its outcome and the API calls it
\* made, in order, each with what the call returned.
Ev(call, ret) == <<[call |-> call, ret |-> ret]>>
Raised == [t |-> "raised"]

\* The index of the first call named c in trace tr, 0 when there is none
FirstCall(tr, c) ==
    IF \E i \in 1..Len(tr) : tr[i].call = c
    THEN CHOOSE i \in 1..Len(tr) :
             /\ tr[i].call = c
             /\ \A j \in 1..(i - 1) : tr[j].call # c
    ELSE 0

\* A run res cut short by an exception of the API call named fault ("" for
\* none): the run stops at the first such call, which raises.
CutAt(res, fault, i) ==
    IF fault = "" \/ i = 0 THEN res
    ELSE [out |-> Raise("RuntimeError"),
          trace |-> SubSeq(res.trace, 1, i - 1) \o Ev(fault, Raised)]

WithFault(res, fault) == CutAt(res, fault, FirstCall(res.trace, fault))

\* A strategy's run res under its clauses "except ImportError" and
\* "except Exception", both of which return None
UnderExcept(res) ==
    [out |-> Catch(Catch(res.out, {"ImportError"}, Ret(PyNone)),
                   {"Exception"}, Ret(PyNone)),
     trace |-> res.trace]

\* Faulty variant of Authorized: a denied status passes as well
Authorized_or_denied == {"AuthorizedAlways", "AuthorizedWhenInUse", "Denied"}

\* The authorization statuses _get_macos_location accepts
Authorized == {"AuthorizedAlways", "AuthorizedWhenInUse"}

\* Faulty variant of MacosRun: a missing fix is requested again and again
\* queried, a second time round
MacosRun_requery(os) ==
    LET t1 == Ev("CLLocationManager.init", PyNone)
              \o Ev("locationServicesEnabled", Bool(os.enabled))
        t2 == t1 \o Ev("authorizationStatus", Str(os.auth[1]))
        t3 == t2 \o Ev("requestWhenInUseAuthorization", PyNone)
                 \o Ev("sleep(1)", PyNone)
                 \o Ev("authorizationStatus", Str(os.auth[2]))
        t4 == IF os.auth[1] \in Authorized THEN t2 ELSE t3
        t5 == t4 \o Ev("setDesiredAccuracy_", PyNone)
                 \o Ev("location", os.fix[1])
        t6 == t5 \o Ev("requestLocation", PyNone)
                 \o Ev("sleep(2)", PyNone)
                 \o Ev("location", os.fix[2])
        t7 == t6 \o Ev("requestLocation", PyNone)
                 \o Ev("sleep(2)", PyNone)
                 \o Ev("location", os.fix[2])
        location == IF os.fix[1] = PyNone THEN os.fix[2] ELSE os.fix[1]
        t8 == IF os.fix[1] # PyNone THEN t5
              ELSE IF os.fix[2] # PyNone THEN t6 ELSE t7
    IN  IF ~os.enabled THEN [out |-> Ret(PyNone), trace |-> t1]
        ELSE IF os.auth[1] \notin Authorized /\ os.auth[2] \notin Authorized
             THEN [out |-> Ret(PyNone), trace |-> t3]
        ELSE IF location = PyNone THEN [out |-> Ret(PyNone), trace |-> t8]
        ELSE [out |-> FloatPair(Float(location.lat), Float(location.lon)),
              trace |-> t8]

\* The try block of _get_macos_location after the import, with no API fault.
\*   os.enabled  locationServicesEnabled()
\*   os.auth     authorizationStatus(), first and second call
\*   os.fix      location(), first and second call: PyNone or the Pair of
\*               coordinate().latitude and coordinate().longitude
MacosRun(os) ==
    LET t1 == Ev("CLLocationManager.init", PyNone)
              \o Ev("locationServicesEnabled", Bool(os.enabled))
        t2 == t1 \o Ev("authorizationStatus", Str(os.auth[1]))
        t3 == t2 \o Ev("requestWhenInUseAuthorization", PyNone)
                 \o Ev("sleep(1)", PyNone)
                 \o Ev("authorizationStatus", Str(os.auth[2]))
        t4 == IF os.auth[1] \in Authorized THEN t2 ELSE t3
        t5 == t4 \o Ev("setDesiredAccuracy_", PyNone)
                 \o Ev("location", os.fix[1])
        t6 == t5 \o Ev("requestLocation", PyNone)
                 \o Ev("sleep(2)", PyNone)
                 \o Ev("location", os.fix[2])
        location == IF os.fix[1] = PyNone THEN os.fix[2] ELSE os.fix[1]
        t7 == IF os.fix[1] = PyNone THEN t6 ELSE t5
    IN  IF ~os.enabled THEN [out |-> Ret(PyNone), trace |-> t1]
        ELSE IF os.auth[1] \notin Authorized /\ os.auth[2] \notin Authorized
             THEN [out |-> Ret(PyNone), trace |-> t3]
        ELSE IF location = PyNone THEN [out |-> Ret(PyNone), trace |-> t7]
        ELSE [out |-> FloatPair(Float(location.lat), Float(location.lon)),
              trace |-> t7]

\* LocationService._get_macos_location
_get_macos_location(os) ==
    UnderExcept(IF ~os.import_ok
                THEN [out |-> Raise("ModuleNotFoundError"),
                      trace |-> Ev("import CoreLocation", Raised)]
                ELSE WithFault(MacosRun(os), os.fault))

\* The inner try block of _get_windows_location, with no API fault.
\*   os.permission  whether RequestPermissions(0) returns a report
\*   os.report      GetReport(): PyNone or a report with Latitude, Longitude
WindowsRun(os) ==
    LET t1 == Ev("Dispatch", PyNone)
              \o Ev("RequestPermissions", Bool(os.permission))
        t2 == t1 \o Ev("GetReport", os.report)
    IN  IF ~os.permission THEN [out |-> Ret(PyNone), trace |-> t1]
        ELSE IF os.report = PyNone THEN [out |-> Ret(PyNone), trace |-> t2]
        ELSE IF os.report.Latitude = PyNone \/ os.report.Longitude = PyNone
             THEN [out |-> Ret(PyNone), trace |-> t2]
        ELSE [out |-> FloatPair(Float(os.report.Latitude),
                                Float(os.report.Longitude)),
              trace |-> t2]

\* Faulty variant of ComScope: CoUninitialize after the block instead of in
\* a finally clause, so that an exception skips it
ComScope_no_finally(run, fault) ==
    [out |-> IF run.out.k = "ret" /\ fault = "CoUninitialize"
             THEN Raise("RuntimeError") ELSE run.out,
     trace |-> Ev("CoInitialize", PyNone) \o run.trace
               \o (IF run.out.k = "raise" THEN <<>>
                   ELSE Ev("CoUninitialize",
                           IF fault = "CoUninitialize" THEN Raised ELSE PyNone))]

\* The inner try block's run between CoInitialize and the CoUninitialize of
\* its finally clause; an exception of CoUninitialize (fault) takes the
\* place of the block's outcome
ComScope(run, fault) ==
    [out |-> IF fault = "CoUninitialize" THEN Raise("RuntimeError") ELSE run.out,
     trace |-> Ev("CoInitialize", PyNone) \o run.trace
               \o Ev("CoUninitialize",
                      IF fault = "CoUninitialize" THEN Raised ELSE PyNone)]

\* LocationService._get_windows_location: CoInitialize, the inner try block
\* and its finally clause, under the two except clauses
_get_windows_location(os) ==
    UnderExcept(IF ~os.import_ok
                THEN [out |-> Raise("ModuleNotFoundError"),
                      trace |-> Ev("import pythoncom", Raised)]
                ELSE IF os.fault = "CoInitialize"
                THEN [out |-> Raise("RuntimeError"),
                      trace |-> Ev("CoInitialize", Raised)]
                ELSE ComScope(WithFault(WindowsRun(os), os.fault), os.fault))

\* The try block of _get_linux_location after the import, with no API fault.
\*   os.mode      packet.mode of gpsd.get_current()
\*   os.lat, lon  packet.lat, packet.lon
LinuxRun(os) ==
    LET t1 == Ev("gpsd.connect", PyNone)
              \o Ev("gpsd.get_current", [t |-> "packet", mode |-> os.mode,
                                         lat |-> os.lat, lon |-> os.lon])
    IN  IF os.mode < 2 THEN [out |-> Ret(PyNone), trace |-> t1]
        ELSE IF \/ os.lat = PyNone \/ os.lon = PyNone
                \/ PyEqZero(os.lat) \/ PyEqZero(os.lon)
             THEN [out |-> Ret(PyNone), trace |-> t1]
        ELSE [out |-> FloatPair(Float(os.lat), Float(os.lon)), trace |-> t1]

\* LocationService._get_linux_location
_get_linux_location(os) ==
    UnderExcept(IF ~os.import_ok
                THEN [out |-> Raise("ModuleNotFoundError"),
                      trace |-> Ev("import gpsd", Raised)]
                ELSE WithFault(LinuxRun(os), os.fault))

\* sys.platform.startswith(prefix)
StartsWith(str, prefix) ==
    Len(str) >= Len(prefix) /\ SubSeq(str, 1, Len(prefix)) = prefix

\* Faulty variant of Strategy: the Linux strategy only for the exact
\* platform name
Strategy_exact(platform) ==
    IF platform = "darwin" THEN "macos"
    ELSE IF platform = "win32" THEN "windows"
    ELSE IF platform = "linux" THEN "linux"
    ELSE ""

\* The platform strategy _get_native_location selects ("" for none)
Strategy(platform) ==
    IF platform = "darwin" THEN "macos"
    ELSE IF platform = "win32" THEN "windows"
    ELSE IF StartsWith(platform, "linux") THEN "linux"
    ELSE ""

\* The call of the selected strategy.  os.strategy_exc names the exception a
\* strategy method raises itself ("" for none), as a replaced strategy can.
StrategyRun(which, os) ==
    IF which = "" THEN [out |-> Ret(PyNone), trace |-> <<>>]
    ELSE IF os.strategy_exc # ""
         THEN [out |-> Raise(os.strategy_exc), trace |-> Ev(which, Raised)]
    ELSE IF which = "macos" THEN _get_macos_location(os)
    ELSE IF which = "windows" THEN _get_windows_location(os)
    ELSE _get_linux_location(os)

StrategyCall(platform, os) == StrategyRun(Strategy(platform), os)

\* LocationService._get_native_location: the dispatch under "except Exception"
\* Faulty variant of _get_native_location: no try/except around the dispatch
_get_native_location_uncaught(platform, os) == StrategyCall(platform, os)

NativeUnderExcept(res) ==
    [out |-> Catch(res.out, {"Exception"}, Ret(PyNone)), trace |-> res.trace]

_get_native_location(platform, os) == NativeUnderExcept(StrategyCall(platform, os))

\* ------------------------------------------------------------- weather art

\* WeatherArt._ASCII_ART as the class body defines it; a character outside
\* ASCII is written <U+code point>
ArtTable ==
    "01d" :> <<"    \\   |   /    ",
                 "     .-.-.-.     ",
                 "  .- (  <U+2600><U+FE0F>  ) -. ",
                 "     '-'-'-'     ",
                 "    /   |   \\    ">>
    @@ "01n" :> <<"     *   *       ",
                 "   *             ",
                 "       <U+1F319>        ",
                 "   *        *    ",
                 "     *   *       ">>
    @@ "02d" :> <<"    \\  |  /      ",
                 " .-.  <U+2600><U+FE0F>  .-.    ",
                 "(   <U+2601><U+FE0F><U+2601><U+FE0F><U+2601><U+FE0F>   )   ",
                 " '-'     '-'     ",
                 "                 ">>
    @@ "02n" :> <<"  *   <U+1F319>    *   ",
                 " .-.      .-.   ",
                 "(   <U+2601><U+FE0F><U+2601><U+FE0F><U+2601><U+FE0F>   )  ",
                 " '-'     '-'    ",
                 "   *        *   ">>
    @@ "03d" :> <<"     .-.-.       ",
                 "   <U+2601><U+FE0F>(     )<U+2601><U+FE0F>  ",
                 "  ( <U+2601><U+FE0F><U+2601><U+FE0F><U+2601><U+FE0F><U+2601><U+FE0F> )  ",
                 "   '-<U+2601><U+FE0F><U+2601><U+FE0F><U+2601><U+FE0F>-'   ",
                 "     '-'-'       ">>
    @@ "03n" :> <<"     .-.-.       ",
                 "   <U+2601><U+FE0F>(     )<U+2601><U+FE0F>  ",
                 "  ( <U+2601><U+FE0F><U+2601><U+FE0F><U+2601><U+FE0F><U+2601><U+FE0F> )  ",
                 "   '-<U+2601><U+FE0F><U+2601><U+FE0F><U+2601><U+FE0F>-'   ",
                 "     '-'-'       ">>
    @@ "04d" :> <<"   <U+2601><U+FE0F><U+2601><U+FE0F><U+2601><U+FE0F><U+2601><U+FE0F><U+2601><U+FE0F>    ",
                 " <U+2601><U+FE0F><U+2601><U+FE0F><U+2601><U+FE0F><U+2601><U+FE0F><U+2601><U+FE0F><U+2601><U+FE0F><U+2601><U+FE0F>  ",
                 "<U+2601><U+FE0F><U+2601><U+FE0F><U+2601><U+FE0F><U+2601><U+FE0F><U+2601><U+FE0F><U+2601><U+FE0F><U+2601><U+FE0F><U+2601><U+FE0F> ",
                 " <U+2601><U+FE0F><U+2601><U+FE0F><U+2601><U+FE0F><U+2601><U+FE0F><U+2601><U+FE0F><U+2601><U+FE0F><U+2601><U+FE0F>  ",
                 "   <U+2601><U+FE0F><U+2601><U+FE0F><U+2601><U+FE0F><U+2601><U+FE0F><U+2601><U+FE0F>    ">>
    @@ "04n" :> <<"   <U+2601><U+FE0F><U+2601><U+FE0F><U+2601><U+FE0F><U+2601><U+FE0F><U+2601><U+FE0F>    ",
                 " <U+2601><U+FE0F><U+2601><U+FE0F><U+2601><U+FE0F><U+2601><U+FE0F><U+2601><U+FE0F><U+2601><U+FE0F><U+2601><U+FE0F>  ",
                 "<U+2601><U+FE0F><U+2601><U+FE0F><U+2601><U+FE0F><U+2601><U+FE0F><U+2601><U+FE0F><U+2601><U+FE0F><U+2601><U+FE0F><U+2601><U+FE0F> ",
                 " <U+2601><U+FE0F><U+2601><U+FE0F><U+2601><U+FE0F><U+2601><U+FE0F><U+2601><U+FE0F><U+2601><U+FE0F><U+2601><U+FE0F>  ",
                 "   <U+2601><U+FE0F><U+2601><U+FE0F><U+2601><U+FE0F><U+2601><U+FE0F><U+2601><U+FE0F>    ">>
    @@ "09d" :> <<"     .-.-.       ",
                 "   <U+2601><U+FE0F>(     )<U+2601><U+FE0F>  ",
                 "  ( <U+2601><U+FE0F><U+2601><U+FE0F><U+2601><U+FE0F><U+2601><U+FE0F> )  ",
                 "   '<U+2614><U+2614><U+2614><U+2614><U+2614>'  ",
                 "    <U+1F4A7><U+1F4A7><U+1F4A7><U+1F4A7>     ">>
    @@ "09n" :> <<"     .-.-.       ",
                 "   <U+2601><U+FE0F>(     )<U+2601><U+FE0F>  ",
                 "  ( <U+2601><U+FE0F><U+2601><U+FE0F><U+2601><U+FE0F><U+2601><U+FE0F> )  ",
                 "   '<U+2614><U+2614><U+2614><U+2614><U+2614>'  ",
                 "    <U+1F4A7><U+1F4A7><U+1F4A7><U+1F4A7>     ">>
    @@ "10d" :> <<"    \\  |  /      ",
                 " .-.  <U+2600><U+FE0F>  .-.    ",
                 "(   <U+2601><U+FE0F><U+2601><U+FE0F><U+2601><U+FE0F>   )   ",
                 "  '<U+1F327><U+FE0F><U+1F327><U+FE0F><U+1F327><U+FE0F><U+1F327><U+FE0F>'  ",
                 "   <U+1F4A7><U+1F4A7><U+1F4A7><U+1F4A7>      ">>
    @@ "10n" :> <<"     .-.-.       ",
                 "   <U+2601><U+FE0F>(     )<U+2601><U+FE0F>  ",
                 "  ( <U+2601><U+FE0F><U+2601><U+FE0F><U+2601><U+FE0F><U+2601><U+FE0F> )  ",
                 "  '<U+1F327><U+FE0F><U+1F327><U+FE0F><U+1F327><U+FE0F><U+1F327><U+FE0F>'  ",
                 "    <U+1F4A7><U+1F4A7><U+1F4A7><U+1F4A7>     ">>
    @@ "11d" :> <<"   <U+2601><U+FE0F><U+2601><U+FE0F><U+2601><U+FE0F><U+2601><U+FE0F><U+2601><U+FE0F>    ",
                 " <U+2601><U+FE0F><U+2601><U+FE0F><U+26C8><U+FE0F><U+26C8><U+FE0F><U+2601><U+FE0F><U+2601><U+FE0F>   ",
                 "<U+2601><U+FE0F><U+26A1><U+2601><U+FE0F><U+2601><U+FE0F><U+26A1><U+2601><U+FE0F><U+2601><U+FE0F>   ",
                 " '<U+1F327><U+FE0F><U+26A1><U+1F327><U+FE0F><U+26A1><U+1F327><U+FE0F>'  ",
                 "   <U+1F4A7><U+26A1><U+1F4A7><U+26A1><U+1F4A7>    ">>
    @@ "11n" :> <<"   <U+2601><U+FE0F><U+2601><U+FE0F><U+2601><U+FE0F><U+2601><U+FE0F><U+2601><U+FE0F>    ",
                 " <U+2601><U+FE0F><U+2601><U+FE0F><U+26C8><U+FE0F><U+26C8><U+FE0F><U+2601><U+FE0F><U+2601><U+FE0F>   ",
                 "<U+2601><U+FE0F><U+26A1><U+2601><U+FE0F><U+2601><U+FE0F><U+26A1><U+2601><U+FE0F><U+2601><U+FE0F>   ",
                 " '<U+1F327><U+FE0F><U+26A1><U+1F327><U+FE0F><U+26A1><U+1F327><U+FE0F>'  ",
                 "   <U+1F4A7><U+26A1><U+1F4A7><U+26A1><U+1F4A7>    ">>
    @@ "13d" :> <<"     .-.-.       ",
                 "   <U+2601><U+FE0F>(     )<U+2601><U+FE0F>  ",
                 "  ( <U+2601><U+FE0F><U+2601><U+FE0F><U+2601><U+FE0F><U+2601><U+FE0F> )  ",
                 "   '<U+2744><U+FE0F><U+2744><U+FE0F><U+2744><U+FE0F><U+2744><U+FE0F>'   ",
                 "    <U+2744><U+FE0F><U+2744><U+FE0F><U+2744><U+FE0F><U+2744><U+FE0F>     ">>
    @@ "13n" :> <<"     .-.-.       ",
                 "   <U+2601><U+FE0F>(     )<U+2601><U+FE0F>  ",
                 "  ( <U+2601><U+FE0F><U+2601><U+FE0F><U+2601><U+FE0F><U+2601><U+FE0F> )  ",
                 "   '<U+2744><U+FE0F><U+2744><U+FE0F><U+2744><U+FE0F><U+2744><U+FE0F>'   ",
                 "    <U+2744><U+FE0F><U+2744><U+FE0F><U+2744><U+FE0F><U+2744><U+FE0F>     ">>
    @@ "50d" :> <<"  <U+224B><U+224B><U+224B><U+224B><U+224B><U+224B><U+224B><U+224B><U+224B><U+224B><U+224B><U+224B>   ",
                 " <U+224B><U+224B><U+224B><U+224B><U+224B><U+224B><U+224B><U+224B><U+224B><U+224B><U+224B><U+224B><U+224B><U+224B>  ",
                 "<U+224B><U+224B><U+224B><U+224B><U+224B><U+224B><U+224B><U+224B><U+224B><U+224B><U+224B><U+224B><U+224B><U+224B><U+224B><U+224B> ",
                 " <U+224B><U+224B><U+224B><U+224B><U+224B><U+224B><U+224B><U+224B><U+224B><U+224B><U+224B><U+224B><U+224B><U+224B>  ",
                 "  <U+224B><U+224B><U+224B><U+224B><U+224B><U+224B><U+224B><U+224B><U+224B><U+224B><U+224B><U+224B>   ">>
    @@ "50n" :> <<"  <U+224B><U+224B><U+224B><U+224B><U+224B><U+224B><U+224B><U+224B><U+224B><U+224B><U+224B><U+224B>   ",
                 " <U+224B><U+224B><U+224B><U+224B><U+224B><U+224B><U+224B><U+224B><U+224B><U+224B><U+224B><U+224B><U+224B><U+224B>  ",
                 "<U+224B><U+224B><U+224B><U+224B><U+224B><U+224B><U+224B><U+224B><U+224B><U+224B><U+224B><U+224B><U+224B><U+224B><U+224B><U+224B> ",
                 " <U+224B><U+224B><U+224B><U+224B><U+224B><U+224B><U+224B><U+224B><U+224B><U+224B><U+224B><U+224B><U+224B><U+224B>  ",
                 "  <U+224B><U+224B><U+224B><U+224B><U+224B><U+224B><U+224B><U+224B><U+224B><U+224B><U+224B><U+224B>   ">>

\* WeatherArt._DEFAULT_ART as the class body defines it
DefaultArt ==
    <<"     ????        ",
      "   ????????      ",
      " ????????????    ",
      "   ????????      ",
      "     ????        ">>

\* cls._ASCII_ART.get(weather_icon, cls._DEFAULT_ART): the list object of the
\* table itself, not a copy
get_weather_art(ascii_art, default_art, weather_icon) ==
    IF weather_icon \in DOMAIN ascii_art THEN ascii_art[weather_icon]
    ELSE default_art

\* The position of the first line feed of s, 0 when it has none
NewlineAt(s) ==
    IF \E i \in 1..Len(s) : SubSeq(s, i, i) = "\n"
    THEN CHOOSE i \in 1..Len(s) :
            /\ SubSeq(s, i, i) = "\n"
            /\ \A j \in 1..(i - 1) : SubSeq(s, j, j) # "\n"
    ELSE 0

\* s.split("\n"), cut at the line feed at position nl
RECURSIVE SplitAt(_, _)
SplitAt(s, nl) ==
    IF nl = 0 THEN <<s>>
    ELSE <<SubSeq(s, 1, nl - 1)>>
         \o SplitAt(SubSeq(s, nl + 1, Len(s)),
                    NewlineAt(SubSeq(s, nl + 1, Len(s))))

\* s.split("\n")
SplitLines(s) == SplitAt(s, NewlineAt(s))

\* "\n".join(lines)
RECURSIVE JoinLines(_)
JoinLines(lines) ==
    IF lines = <<>> THEN ""
    ELSE IF Len(lines) = 1 THEN lines[1]
    ELSE lines[1] \o "\n" \o JoinLines(Tail(lines))

\* " " * n
RECURSIVE Spaces(_)
Spaces(n) == IF n <= 0 THEN "" ELSE " " \o Spaces(n - 1)

\* s.ljust(width)
ljust(s, width) == s \o Spaces(width - PyLen(s))

Max(a, b) == IF a >= b THEN a ELSE b

\* "while len(lines) < max_lines: lines.append('')": the list after the loop
PadLines(lines, max_lines) ==
    lines \o [i \in 1..(max_lines - Len(lines)) |-> ""]

\* max_text_width: the width of the widest non-empty text line, or 0
MaxTextWidth(text_lines) ==
    IF \A i \in 1..Len(text_lines) : text_lines[i] = "" THEN 0
    ELSE CHOOSE w \in {PyLen(text_lines[i]) : i \in 1..Len(text_lines)} :
            \A i \in 1..Len(text_lines) : PyLen(text_lines[i]) <= w

\* One line of combined_lines
CombinedLine(text_line, art_line, max_text_width) ==
    IF text_line # ""
    THEN ljust(text_line, max_text_width) \o "\t" \o art_line
    ELSE Spaces(max_text_width) \o "\t" \o art_line

\* combined_lines, from the two padded lists (zip ends with the shorter)
CombinedLines(text_lines, art_lines, max_text_width) ==
    [i \in 1..(IF Len(text_lines) <= Len(art_lines) THEN Len(text_lines)
                                                    ELSE Len(art_lines)) |->
        CombinedLine(text_lines[i], art_lines[i], max_text_width)]

\* text_lines before the padding: weather_text.strip().split("\n")
TextLines(weather_text) == SplitLines(StripWhitespace(weather_text))

\* art_lines after the first padding loop of format_weather_with_art: the
\* loop appends to the list get_weather_art returned, which is the list of
\* the table
ArtLinesPadded(art_lines, text_lines) ==
    PadLines(art_lines, Max(Len(art_lines), Len(text_lines)))

\* text_lines after the second padding loop
TextLinesPadded(art_lines, text_lines) ==
    PadLines(text_lines, Max(Len(art_lines), Len(text_lines)))

\* format_weather_with_art from art_lines and text_lines as first assigned
FormatWithArt(art_lines, text_lines) ==
    JoinLines(CombinedLines(TextLinesPadded(art_lines, text_lines),
                            ArtLinesPadded(art_lines, text_lines),
                            MaxTextWidth(TextLinesPadded(art_lines, text_lines))))

\* WeatherArt.format_weather_with_art: the string it returns
format_weather_with_art(ascii_art, default_art, weather_icon, weather_text) ==
    FormatWithArt(get_weather_art(ascii_art, default_art, weather_icon),
                  TextLines(weather_text))

\* WeatherArt.format_weather_with_art: the list of the table it has appended
\* to, as it stands when the method returns
ArtLinesAfterFormat(ascii_art, default_art, weather_icon, weather_text) ==
    ArtLinesPadded(get_weather_art(ascii_art, default_art, weather_icon),
                   TextLines(weather_text))

\* ------------------------------------------------------------ the inputs

\* What os.getenv("OPENWEATHER_API_KEY") can give
EnvValues == {PyNone, Str(""), Str("env_key")}

\* os.environ where OPENWEATHER_API_KEY is unset or has the value v
Environ(v) == IF v = PyNone THEN NoKey ELSE "OPENWEATHER_API_KEY" :> v
Environs == {Environ(v) : v \in EnvValues}

\* What the transport can answer to the GET of the IP geolocation endpoint
\* A field of the JSON object, absent or with a value, as the items it adds
ErrorFields == {<<>>} \cup {<<<<"error", v>>>> : v \in {Bool(FALSE), Bool(TRUE)}}
LatitudeFields ==
    {<<>>} \cup {<<<<"latitude", v>>>> :
                   v \in {PyNone, Num(4071), Str("40.71"), Str("north"), Num(12345)}}
LongitudeFields ==
    {<<>>} \cup {<<<<"longitude", v>>>> : v \in {PyNone, Num(-7401), Str("-74.01")}}

\* The payloads, each the items of the JSON object in the order of the
\* document
Payloads ==
    {la \o lo \o e : e \in ErrorFields, la \in LatitudeFields, lo \in LongitudeFields}

\* Besides 200 an answer can carry the status of a redirection without
\* Location header (300), which requests.get returns as it is, and that of
\* a server error (500)
Responses ==
    {[get_exc |-> e, status |-> 0, json |-> Raise("json.JSONDecodeError")] :
        e \in {"requests.ConnectionError", "Timeout"}}
    \cup {[get_exc |-> "", status |-> 200, json |-> j] :
            j \in {Raise("json.JSONDecodeError"), Ret(List(<<>>))}
                  \cup {Ret(Dict(d)) : d \in Payloads}}
    \cup {[get_exc |-> "", status |-> c, json |-> j] :
            c \in {300, 500},
            j \in {Raise("json.JSONDecodeError"),
                   Ret(Dict(<<<<"latitude", Num(4071)>>,
                              <<"longitude", Num(-7401)>>>>))}}

\* What the transport can answer to the GET of get_location_info
InfoPayloads ==
    {c \o r \o k \o n \o z \o e :
        e \in ErrorFields,
        c \in {<<>>, <<<<"city", Str("Berlin")>>>>, <<<<"city", PyNone>>>>},
        r \in {<<>>, <<<<"region", Str("BE")>>>>},
        k \in {<<>>, <<<<"country", Str("DE")>>>>},
        n \in {<<>>, <<<<"country_name", Str("Germany")>>>>},
        z \in {<<>>, <<<<"timezone", Str("Europe/Berlin")>>>>}}
InfoResponses ==
    {[get_exc |-> e, status |-> 0, json |-> Raise("json.JSONDecodeError")] :
        e \in {"requests.ConnectionError", "Timeout"}}
    \cup {[get_exc |-> "", status |-> 200, json |-> j] :
            j \in {Raise("json.JSONDecodeError"), Ret(List(<<>>))}
                  \cup {Ret(Dict(d)) : d \in InfoPayloads}}
    \cup {[get_exc |-> "", status |-> c, json |-> j] :
            c \in {300, 500},
            j \in {Raise("json.JSONDecodeError"),
                   Ret(Dict(<<<<"city", Str("Berlin")>>,
                              <<"country", Str("DE")>>>>))}}

\* How many times get_location_info is called in a run
MaxInfoCalls == 2

\* What the platform's location API can answer
Fixes == {PyNone, Pair(Num(3777), Num(-12242)), Pair(Num(0), Num(0))}
AuthStatuses == {"Denied", "AuthorizedAlways", "AuthorizedWhenInUse"}
MacosEnvs ==
    [strategy_exc : {""}, import_ok : BOOLEAN,
     fault : {"", "locationServicesEnabled", "authorizationStatus",
              "location", "requestLocation"},
     enabled : BOOLEAN, auth : AuthStatuses \X AuthStatuses, fix : Fixes \X Fixes]
Reports ==
    {PyNone} \cup [t : {"report"}, Latitude : {PyNone, Num(4071), Num(0)},
                   Longitude : {PyNone, Num(-7401), Num(0)}]
WindowsEnvs ==
    [strategy_exc : {""}, import_ok : BOOLEAN,
     fault : {"", "CoInitialize", "Dispatch", "GetReport", "CoUninitialize"},
     permission : BOOLEAN, report : Reports]
LinuxEnvs ==
    [strategy_exc : {""}, import_ok : BOOLEAN,
     fault : {"", "gpsd.connect", "gpsd.get_current"},
     mode : 0..3, lat : {PyNone, Num(0), Num(5151)}, lon : {PyNone, Num(0), Num(-13)}]
NoEnv == [strategy_exc |-> ""]
StrategyEnvs(which) ==
    (IF which = "macos" THEN MacosEnvs
     ELSE IF which = "windows" THEN WindowsEnvs
     ELSE IF which = "linux" THEN LinuxEnvs
     ELSE {NoEnv})
    \cup (IF which = "" THEN {} ELSE {[strategy_exc |-> "Exception"]})

NativeEnvs(platform) == StrategyEnvs(Strategy(platform))

Platforms == {"darwin", "win32", "linux", "linux2", "freebsd"}
CityArgs == {PyNone, Str(""), Str("London")}
Configs ==
    {Dict(<<>>),
     Dict(<<<<"defaults", Str("none")>>>>),
     Dict(<<<<"defaults", Dict(<<>>)>>>>),
     Dict(<<<<"defaults", Dict(<<<<"city", Str("")>>>>)>>>>),
     Dict(<<<<"defaults", Dict(<<<<"city", Str("Berlin")>>>>)>>>>),
     Dict(<<<<"api", Dict(<<<<"openweather",
                             Dict(<<<<"key", Str("file_key")>>>>)>>>>)>>>>)}

\* The config.yaml a run of the CLI can meet: none, one that holds one of
\* the configurations, one that holds a list or a scalar, one that is no
\* YAML (a flow sequence left open, an alias of no anchor, a tag safe_load
\* does not construct, a control character) or no UTF-8, and a directory of
\* that name
ConfigFiles ==
    {NoConfigFile, Loadable(List(<<Str("a"), Str("b")>>)),
     Loadable(Str("just a word")),
     ConfigFile(TRUE, "", Raise("ScannerError")),
     ConfigFile(TRUE, "", Raise("ComposerError")),
     ConfigFile(TRUE, "", Raise("ConstructorError")),
     ConfigFile(TRUE, "", Raise("ReaderError")),
     ConfigFile(TRUE, "", Raise("UnicodeDecodeError")),
     ConfigFile(TRUE, "IsADirectoryError", Ret(PyNone))}
    \cup {Loadable(d) : d \in Configs \ {Dict(<<>>)}}

\* Those of which Config() makes a Config
LoadedConfigFiles == {file \in ConfigFiles : _load_config(file).k = "ret"}

\* What a client passes to the library's operations
Services == {"openweather", "unknown_service"}
LibraryEnvirons ==
    Environs \cup {"UNKNOWN_SERVICE_API_KEY" :> Str("stray_key"),
                   ("OPENWEATHER_API_KEY" :> Str("env_key"))
                       @@ ("UNKNOWN_SERVICE_API_KEY" :> Str("stray_key"))}
LibraryConfigs ==
    Configs
    \cup {Dict(<<<<"api", Dict(<<<<"unknown_service",
                                  Dict(<<<<"key", Str("unknown_api_key")>>>>)>>>>)>>>>),
          Dict(<<<<"api", Dict(<<<<"openweather", Dict(<<<<"key", Str("")>>>>)>>>>)>>>>),
          Dict(<<<<"api",
                 Dict(<<<<"unknown_service",
                         Dict(<<<<"key", Str("unknown_api_key")>>>>)>>,
                        <<"openweather", Dict(<<<<"key", Str("file_key")>>>>)>>>>)>>>>)}
ServiceKeys == {PyNone, Str(""), Str("test_key")}
WeatherLocations ==
    {Str("London"), Str(""), Pair(Num(4071), Num(-7401)), Pair(Num(0), Num(0)),
     from_city(Str("London")), from_coordinates(Num(5151), Num(-13))}
Icons == DOMAIN ArtTable \cup {"99x", ""}
WeatherTexts ==
    {"",
     "Sunny",
     "\n  Rain \n\nlater\n",
     "Weather in London, GB:\nTemperature: 20.0<U+00B0>C\nHumidity: 65%\nConditions: Clear Sky",
     "one\ntwo\nthree\nfour\nfive\nsix",
     "1\n22\n\n4444\n5\n6\n7"}

\* How many direct calls a client makes in a run
MaxLibraryCalls == 2

\* -------------------------------------------------------- the state machine

VARIABLES
    entry,          \* what runs: "resolve_location", the CLI's "main",
                    \* "get_location_info", or "library" for direct calls
    here,           \* the "use current location" flag of the call
    city_arg,       \* the city argument as passed: PyNone or a Str
    config_file,    \* the config.yaml of the current directory
    config_data,    \* Config._config_data
    platform,       \* sys.platform
    pc,             \* where the run stands: "call", "native", "ip", then
                    \* "done" (resolve_location returned), "weather" (main
                    \* has its location), "finished" (main returned),
                    \* "aborted" (main raised Abort) or "raised" (another
                    \* exception left main)
    city,           \* the variable city of the running function
    events,         \* the calls made so far to the collaborators, with results
    native_coords,  \* outcome of _get_native_location, Unset before it ran
    ip_coords,      \* outcome of _get_ip_location, Unset before it ran
    response,       \* the transport's answer to the GET, Unset before it
    coords,         \* outcome of get_current_location, Unset before it returns
    result,         \* outcome of resolve_location, Unset before it returns
    location,       \* main's local variable location (None until selected)
    location_description,   \* main's local variable location_description
    output,         \* the lines main has written with click.echo
    requests_sent,  \* the calls of requests.get made so far, in order
    api_key,        \* main's local variable api_key, Unset before it is set
    weather_service,    \* main's WeatherService, Unset before construction
    weather_response,   \* the transport's answer to the weather request
    exit_code,      \* the exit code of the CLI, Unset while it runs
    info_results,   \* the calls of get_location_info so far: the answer of
                    \* the transport and the outcome of each
    _ASCII_ART,     \* the class attribute WeatherArt._ASCII_ART
    _DEFAULT_ART,   \* the class attribute WeatherArt._DEFAULT_ART
    calls_made,     \* how many direct calls a client of the library has made
    last_call       \* the last of them: operation, arguments and outcome

vars == <<entry, here, city_arg, config_file, config_data, platform, pc, city,
          events,
          native_coords, ip_coords, response, coords, result, location,
          location_description, output, requests_sent, api_key,
          weather_service, weather_response, exit_code, info_results,
          _ASCII_ART, _DEFAULT_ART, calls_made, last_call>>

\* The state of a client that calls the library's operations directly
library == <<_ASCII_ART, _DEFAULT_ART, calls_made, last_call>>

inputs == <<entry, here, city_arg, config_file, platform>>

Unset == [k |-> "unset"]
Entries == {"resolve_location", "main", "get_location_info"}

Init ==
    /\ entry \in Entries
    /\ IF entry = "get_location_info"
       THEN /\ here = FALSE
            /\ city_arg = PyNone
            /\ config_file = NoConfigFile
            /\ platform = "freebsd"
       ELSE /\ here \in BOOLEAN
            /\ city_arg \in CityArgs
            /\ config_file \in (IF entry = "main" THEN ConfigFiles
                                 ELSE LoadedConfigFiles)
            /\ platform \in Platforms
    /\ config_data = IF entry = "main" THEN Dict(<<>>)
                     ELSE _load_config(config_file).v
    /\ pc = "call"
    /\ city = city_arg
    /\ events = <<>>
    /\ native_coords = Unset
    /\ ip_coords = Unset
    /\ response = Unset
    /\ coords = Unset
    /\ result = Unset
    /\ location = PyNone
    /\ location_description = ""
    /\ output = <<>>
    /\ requests_sent = <<>>
    /\ api_key = Unset
    /\ weather_service = Unset
    /\ weather_response = Unset
    /\ exit_code = Unset
    /\ info_results = <<>>
    /\ _ASCII_ART = ArtTable
    /\ _DEFAULT_ART = DefaultArt
    /\ calls_made = 0
    /\ last_call = Unset

\* Faulty variant of WrapCoordinates: latitude and longitude exchanged
WrapCoordinates_swapped(c) ==
    IF c.k = "raise" THEN c
    ELSE IF Truthy(c.v) THEN Ret(from_coordinates(c.v.lon, c.v.lat))
    ELSE Ret(PyNone)

\* LocationResolver._get_current_location, given the outcome c of
\* location_service.get_current_location()
WrapCoordinates(c) ==
    IF c.k = "raise" THEN c
    ELSE IF Truthy(c.v) THEN Ret(from_coordinates(c.v.lat, c.v.lon))
    ELSE Ret(PyNone)

_get_current_location(c) ==
    Catch(WrapCoordinates(c), {"RequestException", "ValueError"}, Ret(PyNone))

\* Faulty variant of resolve_location_branch: the city is tested before the
\* "use current location" flag
resolve_location_city_first(here_flag, city_name) ==
    IF Truthy(city_name) THEN "city"
    ELSE IF here_flag THEN "here"
    ELSE "default"

\* Faulty variant of resolve_location_branch: the configured default is
\* consulted without regard to the city argument
resolve_location_no_city(here_flag, city_name) ==
    IF here_flag THEN "here" ELSE "default"

\* The if/elif chain of resolve_location: which source the arguments select
resolve_location_branch(here_flag, city_name) ==
    IF here_flag THEN "here"
    ELSE IF Truthy(city_name) THEN "city"
    ELSE "default"

\* Faulty variant of default_city_lookup: the lookup hoisted above the
\* if/elif chain
default_city_lookup_eager(branch, data) ==
    Ev("get_default_city", get_default_city(data))

\* The calls of config.get_default_city() resolve_location makes: the lookup
\* stands after the returns of the "here" and the "city" branch
default_city_lookup(branch, data) ==
    IF branch = "default" THEN Ev("get_default_city", get_default_city(data))
    ELSE <<>>

\* LocationResolver.resolve_location up to its return or to its call of the
\* acquirer
resolve_location ==
    /\ UNCHANGED library
    /\ pc = "call"
    /\ entry = "resolve_location"
    /\ UNCHANGED <<inputs, config_data, city, native_coords, ip_coords, response, coords,
                   location, location_description, output, requests_sent,
                   api_key, weather_service, weather_response, exit_code,
                   info_results>>
    /\ \E branch \in {resolve_location_branch(here, city)} :
         /\ events' = events \o default_city_lookup(branch, config_data)
         /\ IF branch = "here"
            THEN /\ pc' = "native"
                 /\ UNCHANGED result
            ELSE IF branch = "city"
            THEN /\ pc' = "done"
                 /\ result' = Ret(from_city(city))
            ELSE \E default_city \in {get_default_city(config_data)} :
                 IF Truthy(default_city)
                 THEN /\ pc' = "done"
                      /\ result' = Ret(from_city(default_city))
                 ELSE /\ pc' = "native"
                      /\ UNCHANGED result

\* Faulty variant of main_branch: the city is tested before the flag
main_branch_city_first(here_flag, city_name) ==
    IF Truthy(city_name) THEN "city"
    ELSE IF here_flag THEN "here"
    ELSE "default"

\* The if/elif chain of main's selection of the location
main_branch(here_flag, city_name) ==
    IF here_flag THEN "here"
    ELSE IF Truthy(city_name) THEN "city"
    ELSE "default"

\* The calls of config.get_default_city() main makes: in its else branch
main_default_city_lookup(branch, data) ==
    IF branch = "default" THEN Ev("get_default_city", get_default_city(data))
    ELSE <<>>

\* main's selection of the location (cli.py, "Determine location") up to
\* its end or to its call of the acquirer, for the loaded configuration data
MainSelects(data) ==
    /\ \E environ \in Environs :
         /\ api_key' = get_api_key("openweather", environ, data)
         /\ events' = events
                      \o Ev("os.getenv", os_getenv(environ, "OPENWEATHER_API_KEY"))
                      \o main_default_city_lookup(main_branch(here, city), data)
    /\ \E branch \in {main_branch(here, city)} :
         /\ IF branch = "here"
            THEN /\ pc' = "native"
                 /\ UNCHANGED <<city, location, location_description>>
            ELSE IF branch = "city"
            THEN /\ pc' = "weather"
                 /\ location' = city
                 /\ location_description' = "city " \o PyStr(city)
                 /\ UNCHANGED city
            ELSE \E default_city \in {get_default_city(data)} :
                 /\ city' = default_city
                 /\ IF Truthy(default_city)
                    THEN /\ pc' = "weather"
                         /\ location' = default_city
                         /\ location_description' =
                                "default city " \o PyStr(default_city)
                    ELSE /\ pc' = "native"
                         /\ UNCHANGED <<location, location_description>>

\* main from its start: Config() (cli.py, "configuration initialization"),
\* whose exception leaves main, then config.get_api_key and the selection of
\* the location
main ==
    /\ UNCHANGED library
    /\ pc = "call"
    /\ entry = "main"
    /\ UNCHANGED <<inputs, native_coords, ip_coords, response, coords, output,
                   requests_sent, weather_service, weather_response,
                   info_results>>
    /\ \E loaded \in {_load_config(config_file)} :
         IF loaded.k = "raise"
         THEN /\ pc' = "raised"
              /\ result' = loaded
              /\ exit_code' = PyInt(1)
              /\ UNCHANGED <<config_data, city, events, location,
                             location_description, api_key>>
         ELSE /\ config_data' = loaded.v
              /\ UNCHANGED <<result, exit_code>>
              /\ MainSelects(loaded.v)

\* The remedies main lists when no city and no default city were given
Remedies ==
    <<"Either:",
      "1. Use --city 'City Name' to specify a city",
      "2. Configure a default city in config.yaml:",
      "   defaults:",
      "     city: 'Your City'">>

\* What main writes when the acquirer yields nothing
CouldNotDetermine(here_flag) ==
    IF here_flag
    THEN <<"Error: Could not determine current location. "
           \o "Try specifying a city with --city instead.">>
    ELSE <<"Error: Could not determine current location.">> \o Remedies

\* What main writes when the acquirer raises the exception e
FailedToGet(here_flag, e) ==
    IF here_flag
    THEN <<"Error: Failed to get current location - " \o e \o ". "
           \o "Try specifying a city with --city instead.">>
    ELSE <<"Error: Failed to get current location - " \o e \o ".">> \o Remedies

\* main after get_current_location() gave the outcome c: the location it
\* keeps, or the message and the Abort; an exception that is neither a
\* RequestException nor a ValueError escapes
MainAcquired(here_flag, c) ==
    IF c.k = "ret" /\ Truthy(c.v)
    THEN [pc |-> "weather", location |-> c.v,
          location_description |->
              "coordinates " \o Fmt2(c.v.lat) \o ", " \o Fmt2(c.v.lon),
          output |-> <<>>, escaped |-> ""]
    ELSE IF c.k = "ret"
    THEN [pc |-> "aborted", location |-> PyNone, location_description |-> "",
          output |-> CouldNotDetermine(here_flag), escaped |-> ""]
    ELSE IF IsInstance(c.e, "RequestException") \/ IsInstance(c.e, "ValueError")
    THEN [pc |-> "aborted", location |-> PyNone, location_description |-> "",
          output |-> FailedToGet(here_flag, c.e), escaped |-> ""]
    ELSE [pc |-> "raised", location |-> PyNone, location_description |-> "",
          output |-> <<>>, escaped |-> c.e]

\* The return of get_current_location() with outcome c to its caller:
\* LocationResolver._get_current_location or main
Acquired(c) ==
    /\ coords' = c
    /\ IF entry = "resolve_location"
       THEN /\ pc' = "done"
            /\ result' = _get_current_location(c)
            /\ UNCHANGED <<location, location_description, output, exit_code>>
       ELSE \E m \in {MainAcquired(here, c)} :
            /\ exit_code' = IF m.pc \in {"aborted", "raised"} THEN PyInt(1)
                            ELSE exit_code
            /\ pc' = m.pc
            /\ result' = IF m.escaped = "" THEN result ELSE Raise(m.escaped)
            /\ location' = m.location
            /\ location_description' = m.location_description
            /\ output' = output \o m.output

\* Faulty variant of NativeReturns: the IP lookup is made whatever the
\* native layer gave
NativeReturns_never(c) == c.k = "raise"

\* "if native_coords:" of get_current_location on the outcome c of the
\* native layer: whether get_current_location ends with it (an exception
\* of the layer leaves get_current_location at once)
NativeReturns(c) == c.k = "raise" \/ Truthy(c.v)

\* "if ip_coords:" of get_current_location on the outcome c of the IP layer
IpReturns(c) == c.k = "raise" \/ Truthy(c.v)

\* Faulty variant of FallbackLayer: the native layer is attempted again
FallbackLayer_native_again == "native"

\* Where get_current_location goes on when the native layer gave nothing:
\* "Layer 2: Fallback to IP geolocation"
FallbackLayer == "ip"

\* LocationService.get_current_location, layer 1: the native attempt, and
\* the return to the caller when it yields coordinates
get_current_location_native ==
    /\ UNCHANGED library
    /\ pc = "native"
    /\ \E os \in NativeEnvs(platform) :
         \E native \in {_get_native_location(platform, os)} :
             /\ native_coords' = native.out
             /\ events' = events \o native.trace
                          \o Ev("_get_native_location",
                                IF native.out.k = "ret" THEN native.out.v ELSE Raised)
             /\ IF NativeReturns(native.out)
                THEN Acquired(native.out)
                ELSE /\ pc' = FallbackLayer
                     /\ UNCHANGED <<coords, result, location,
                                    location_description, output, exit_code>>
    /\ UNCHANGED <<inputs, config_data, city, ip_coords, response, requests_sent, api_key,
                   weather_service, weather_response, info_results>>

\* LocationService.get_current_location, layer 2: the IP geolocation
\* request, and the return to the caller
get_current_location_ip ==
    /\ UNCHANGED library
    /\ pc = "ip"
    /\ \E resp \in Responses :
         \E ip \in {_get_ip_location(resp)} :
             /\ response' = resp
             /\ ip_coords' = ip
             /\ events' = events \o Ev("requests.get", PyNone)
                          \o Ev("_get_ip_location",
                                IF ip.k = "ret" THEN ip.v ELSE Raised)
             /\ Acquired(IF IpReturns(ip) THEN ip ELSE Ret(PyNone))
    /\ requests_sent' = Append(requests_sent, IpRequest)
    /\ UNCHANGED <<inputs, config_data, city, native_coords, api_key,
                   weather_service, weather_response, info_results>>

\* ------------------------------------------------------ the weather lookup

OPENWEATHER_BASE_URL == "https://api.openweathermap.org/data/2.5/weather"

\* WeatherService.get_weather: the query parameters; "isinstance(location,
\* tuple)" holds of a (lat, lon) tuple alone, every other value, a Location
\* object included, is sent as q
WeatherParams(loc, key) ==
    IF loc.t = "tuple"
    THEN Dict(<<<<"lat", Str(FloatStr(loc.lat))>>, <<"lon", Str(FloatStr(loc.lon))>>,
                <<"appid", key>>, <<"units", Str("metric")>>>>)
    ELSE Dict(<<<<"q", loc>>, <<"appid", key>>, <<"units", Str("metric")>>>>)

\* WeatherService.get_weather: requests.get(self.base_url, params=params)
WeatherRequest(loc, key) ==
    requests_get(OPENWEATHER_BASE_URL, WeatherParams(loc, key), NotPassed,
                 NotPassed)

\* The requests get_weather sends: none when the key check raises
GetWeatherRequests(key, loc) ==
    IF ~Truthy(key) THEN <<>> ELSE <<WeatherRequest(loc, key)>>

\* The response an exception of requests carries, with its status code
Response(status_code) == [t |-> "Response", status_code |-> status_code]

\* Faulty variant of get_weather: the API key is not checked
get_weather_unchecked(key, loc, wresp) ==
    IF wresp.get_exc # "" THEN RaiseWith(wresp.get_exc, wresp.exc_response)
    ELSE IF IsErrorStatus(wresp.status)
    THEN RaiseWith("requests.HTTPError", Response(wresp.status))
    ELSE IF wresp.json.k = "raise" THEN wresp.json
    ELSE IF wresp.json.v.t # "dict" THEN Raise("AttributeError")
    ELSE wresp.json

\* WeatherService.get_weather on the answer wresp of the transport:
\*   wresp.get_exc  the exception requests.get raises, "" when it returns
\*   wresp.exc_response  the response that exception carries, or PyNone
\*   wresp.status   the HTTP status code, for raise_for_status()
\*   wresp.json     the outcome of response.json()
get_weather(key, loc, wresp) ==
    IF ~Truthy(key) THEN Raise("ValueError")
    ELSE IF wresp.get_exc # "" THEN RaiseWith(wresp.get_exc, wresp.exc_response)
    ELSE IF IsErrorStatus(wresp.status)
    THEN RaiseWith("requests.HTTPError", Response(wresp.status))
    ELSE IF wresp.json.k = "raise" THEN wresp.json
    ELSE IF wresp.json.v.t # "dict" THEN Raise("AttributeError")
    ELSE wresp.json

\* The f-string of format_weather_output from the outcomes of its six
\* lookups, the first failing lookup raising; the four lines of the text
FormatLines(name, country, temp, feels_like, humidity, description) ==
    IF name.k = "raise" THEN name
    ELSE IF country.k = "raise" THEN country
    ELSE IF temp.k = "raise" THEN temp
    ELSE IF feels_like.k = "raise" THEN feels_like
    ELSE IF humidity.k = "raise" THEN humidity
    ELSE IF description.k = "raise" THEN description
    ELSE Ret(<<"Weather in " \o PyStr(name.v) \o ", " \o PyStr(country.v) \o ":",
               "Temperature: " \o PyStr(temp.v) \o "<U+00B0>C (feels like "
                   \o PyStr(feels_like.v) \o "<U+00B0>C)",
               "Humidity: " \o PyStr(humidity.v) \o "%",
               "Conditions: " \o PyStr(description.v)>>)

\* WeatherService.format_weather_output
format_weather_output(weather_data) ==
    FormatLines(GetItem(weather_data, "name"),
                ThenItem(GetItem(weather_data, "sys"), "country"),
                ThenItem(GetItem(weather_data, "main"), "temp"),
                ThenItem(GetItem(weather_data, "main"), "feels_like"),
                ThenItem(GetItem(weather_data, "main"), "humidity"),
                ThenTitle(ThenItem(ThenFirst(GetItem(weather_data, "weather")),
                                   "description")))

\* What main writes when api_key is falsy
MissingApiKey ==
    <<"Error: OpenWeather API key not found.",
      "Please set it in one of these ways:",
      "1. Environment variable: export OPENWEATHER_API_KEY=your_key",
      "2. Config file (config.yaml):",
      "   api:",
      "     openweather:",
      "       key: your_api_key_here",
      "",
      "Get your free API key from: https://openweathermap.org/api">>

\* e.response of main's test 'hasattr(e, "response") and e.response is not
\* None' for the raised exception r: PyNone when it carries none
ResponseOf(r) == IF "response" \in DOMAIN r THEN r.response ELSE PyNone

\* main's clause "except requests.RequestException" for the exception e
\* with the response e_response (PyNone for none)
RequestFailed(loc, e, e_response) ==
    IF e_response # PyNone
    THEN IF e_response.status_code = 404
         THEN IF loc.t = "tuple"
              THEN <<"Error: No weather data found for coordinates "
                     \o Fmt2(loc.lat) \o ", " \o Fmt2(loc.lon) \o ".">>
              ELSE <<"Error: City '" \o PyStr(loc) \o "' not found.">>
         ELSE IF e_response.status_code = 401 THEN <<"Error: Invalid API key.">>
         ELSE <<"Error: API request failed with status "
                \o ToString(e_response.status_code)>>
    ELSE IF loc.t = "tuple"
         THEN <<"Error: Network request failed for coordinates "
                \o Fmt2(loc.lat) \o ", " \o Fmt2(loc.lon) \o " - " \o e>>
         ELSE <<"Error: Network request failed for " \o PyStr(loc) \o " - " \o e>>

\* main's try block around get_weather and format_weather_output, given the
\* outcome r of the two calls: what is written and the exit code (an Abort
\* ends the command with exit code 1)
WeatherReport(loc, r) ==
    IF r.k = "ret" THEN [output |-> r.v, pc |-> "finished", exit_code |-> PyInt(0)]
    ELSE IF IsInstance(r.e, "RequestException")
         THEN [output |-> RequestFailed(loc, r.e, ResponseOf(r)), pc |-> "aborted",
               exit_code |-> PyInt(1)]
    ELSE IF IsInstance(r.e, "ValueError")
         THEN [output |-> <<"Error: " \o r.e>>, pc |-> "aborted",
               exit_code |-> PyInt(1)]
    ELSE IF IsInstance(r.e, "Exception")
         THEN [output |-> <<"Unexpected error: " \o r.e>>, pc |-> "aborted",
               exit_code |-> PyInt(1)]
    ELSE [output |-> <<>>, pc |-> "raised", exit_code |-> PyInt(1)]

\* weather_service.format_weather_output(weather_data) after get_weather
\* gave the outcome data
ThenFormat(data) ==
    IF data.k = "raise" THEN data ELSE format_weather_output(data.v)

\* What the transport can answer to the weather request
WeatherPayloads ==
    {Dict(<<<<"weather", List(<<Dict(<<<<"description", Str("clear sky")>>>>)>>)>>,
            <<"main", Dict(<<<<"temp", Num(2000)>>, <<"feels_like", Num(1850)>>,
                             <<"humidity", PyInt(65)>>>>)>>,
            <<"sys", Dict(<<<<"country", Str("GB")>>>>)>>,
            <<"name", Str("London")>>>>),
     Dict(<<<<"name", Str("London")>>>>),
     List(<<>>)}
WeatherResponses ==
    {[get_exc |-> "requests.ConnectionError", exc_response |-> PyNone, status |-> 0,
      json |-> Ret(PyNone)]}
    \cup {[get_exc |-> "TooManyRedirects", exc_response |-> Response(302),
           status |-> 0, json |-> Ret(PyNone)]}
    \cup {[get_exc |-> "", exc_response |-> PyNone, status |-> c,
           json |-> Ret(PyNone)] : c \in {401, 404, 500}}
    \cup {[get_exc |-> "", exc_response |-> PyNone, status |-> 200,
           json |-> Ret(j)] : j \in WeatherPayloads}
    \cup {[get_exc |-> "", exc_response |-> PyNone, status |-> 200,
           json |-> Raise(e)] : e \in {"json.JSONDecodeError", "requests.JSONDecodeError"}}

\* main's weather lookup (cli.py, from "with timer(... weather lookup"): the
\* check of the API key, the construction of the WeatherService, the fetch,
\* the formatting and the output
main_weather ==
    /\ UNCHANGED library
    /\ pc = "weather"
    /\ UNCHANGED <<inputs, config_data, city, events, native_coords, ip_coords, response,
                   coords, result, location, location_description, api_key,
                   info_results>>
    /\ IF ~Truthy(api_key)
       THEN /\ output' = output \o MissingApiKey
            /\ pc' = "aborted"
            /\ exit_code' = PyInt(1)
            /\ UNCHANGED <<requests_sent, weather_service, weather_response>>
       ELSE \E wresp \in WeatherResponses :
            \E w \in {WeatherReport(location,
                                    ThenFormat(get_weather(api_key, location,
                                                           wresp)))} :
                /\ weather_service' = [api_key |-> api_key,
                                       base_url |-> OPENWEATHER_BASE_URL]
                /\ requests_sent' = Append(requests_sent,
                                           WeatherRequest(location, api_key))
                /\ weather_response' = wresp
                /\ output' = output \o w.output
                /\ pc' = w.pc
                /\ exit_code' = w.exit_code

\* A call of LocationService.get_location_info; a repeated call meets the
\* payload of the first
call_get_location_info ==
    /\ UNCHANGED library
    /\ entry = "get_location_info"
    /\ pc \in {"call", "repeat"}
    /\ Len(info_results) < MaxInfoCalls
    /\ \E resp \in (IF info_results = <<>> THEN InfoResponses
                    ELSE {info_results[1].response}) :
         info_results' = Append(info_results,
                                [response |-> resp,
                                 result |-> get_location_info(resp)])
    /\ requests_sent' = Append(requests_sent, IpRequest)
    /\ pc' = IF Len(info_results) + 1 < MaxInfoCalls THEN "repeat" ELSE "done"
    /\ UNCHANGED <<inputs, config_data, city, events, native_coords, ip_coords, response,
                   coords, result, location, location_description, output,
                   api_key, weather_service, weather_response, exit_code>>

Next ==
    \/ resolve_location
    \/ main
    \/ get_current_location_native
    \/ get_current_location_ip
    \/ main_weather
    \/ call_get_location_info

Spec == Init /\ [][Next]_vars

\* ------------------------------------------- direct calls of the library

\* The state before a client's first call: nothing of the CLI has run
LibraryInit ==
    /\ entry = "library"
    /\ here = FALSE
    /\ city_arg = PyNone
    /\ config_file = NoConfigFile
    /\ config_data = Dict(<<>>)
    /\ platform = "freebsd"
    /\ pc = "call"
    /\ city = PyNone
    /\ events = <<>>
    /\ native_coords = Unset
    /\ ip_coords = Unset
    /\ response = Unset
    /\ coords = Unset
    /\ result = Unset
    /\ location = PyNone
    /\ location_description = ""
    /\ output = <<>>
    /\ requests_sent = <<>>
    /\ api_key = Unset
    /\ weather_service = Unset
    /\ weather_response = Unset
    /\ exit_code = Unset
    /\ info_results = <<>>
    /\ _ASCII_ART = ArtTable
    /\ _DEFAULT_ART = DefaultArt
    /\ calls_made = 0
    /\ last_call = Unset

\* What a direct call leaves alone
cli_state == <<inputs, config_data, pc, city, events, native_coords, ip_coords, response,
               coords, result, location, location_description, output,
               requests_sent, api_key, weather_service, weather_response,
               exit_code, info_results>>

\* Config(...).get_api_key(service)
call_get_api_key ==
    /\ calls_made < MaxLibraryCalls
    /\ calls_made' = calls_made + 1
    /\ \E service \in Services, environ \in LibraryEnvirons, data \in LibraryConfigs :
         last_call' = [op |-> "get_api_key", service |-> service,
                       environ |-> environ, data |-> data,
                       out |-> Ret(get_api_key(service, environ, data))]
    /\ UNCHANGED <<cli_state, _ASCII_ART, _DEFAULT_ART>>

\* WeatherService(key).get_weather(loc)
call_get_weather ==
    /\ calls_made < MaxLibraryCalls
    /\ calls_made' = calls_made + 1
    /\ \E key \in ServiceKeys, loc \in WeatherLocations, wresp \in WeatherResponses :
         last_call' = [op |-> "get_weather", api_key |-> key, location |-> loc,
                       response |-> wresp,
                       requests |-> GetWeatherRequests(key, loc),
                       out |-> get_weather(key, loc, wresp)]
    /\ UNCHANGED <<cli_state, _ASCII_ART, _DEFAULT_ART>>

\* WeatherArt.get_weather_art(weather_icon)
call_get_weather_art ==
    /\ calls_made < MaxLibraryCalls
    /\ calls_made' = calls_made + 1
    /\ \E weather_icon \in Icons :
         last_call' = [op |-> "get_weather_art", weather_icon |-> weather_icon,
                       out |-> Ret(get_weather_art(_ASCII_ART, _DEFAULT_ART,
                                                   weather_icon))]
    /\ UNCHANGED <<cli_state, _ASCII_ART, _DEFAULT_ART>>

\* WeatherArt.format_weather_with_art(weather_icon, weather_text): the list
\* it pads is the list of the table, or the default list
call_format_weather_with_art ==
    /\ calls_made < MaxLibraryCalls
    /\ calls_made' = calls_made + 1
    /\ \E weather_icon \in Icons, weather_text \in WeatherTexts :
         \E art_lines \in {ArtLinesAfterFormat(_ASCII_ART, _DEFAULT_ART,
                                               weather_icon, weather_text)} :
            /\ last_call' = [op |-> "format_weather_with_art",
                             weather_icon |-> weather_icon,
                             weather_text |-> weather_text,
                             out |-> Ret(format_weather_with_art(
                                            _ASCII_ART, _DEFAULT_ART,
                                            weather_icon, weather_text))]
            /\ IF weather_icon \in DOMAIN _ASCII_ART
               THEN /\ _ASCII_ART' = [_ASCII_ART EXCEPT ![weather_icon] = art_lines]
                    /\ UNCHANGED _DEFAULT_ART
               ELSE /\ _DEFAULT_ART' = art_lines
                    /\ UNCHANGED _ASCII_ART
    /\ UNCHANGED cli_state

LibraryNext ==
    \/ call_get_api_key
    \/ call_get_weather
    \/ call_get_weather_art
    \/ call_format_weather_with_art

LibrarySpec == LibraryInit /\ [][LibraryNext]_vars

\* ------------------------------------------------------------------ claims

\* The resolution of the location is over
Terminal == pc \in {"done", "weather", "finished", "aborted"}

\* How many calls named c the run has made
Calls(c) == Cardinality({i \in 1..Len(events) : events[i].call = c})

\* The calls the acquirer and its two layers make
AcquirerCalls ==
    {i \in 1..Len(events) : events[i].call \notin {"get_default_city", "os.getenv"}}

\* Neither layer of the acquirer has been touched
AcquirerUntouched ==
    /\ native_coords = Unset
    /\ ip_coords = Unset
    /\ response = Unset
    /\ coords = Unset
    /\ AcquirerCalls = {}

\* The default city as the configuration file states it, read off the
\* loaded data directly: PyNone when there is none
ConfiguredCity ==
    IF /\ "defaults" \in DOMAIN config_data.d
       /\ config_data.d["defaults"].t = "dict"
       /\ "city" \in DOMAIN config_data.d["defaults"].d
    THEN config_data.d["defaults"].d["city"]
    ELSE PyNone

NoDefaultCity == ConfiguredCity = PyNone \/ ConfiguredCity = Str("")

\* C1 (priority law): resolve_location called with here=true never returns
\* a City, whatever the city argument and the configured default are: it
\* returns Coordinates equal to what the acquirer returned when the
\* acquisition succeeded and None when it did not.
C1_PriorityLaw ==
    (entry = "resolve_location" /\ here /\ pc = "done") =>
        /\ result.k = "ret"
        /\ coords.k = "ret"
        /\ IF coords.v = PyNone
           THEN result.v = PyNone
           ELSE /\ result.v.t = "Location"
                /\ is_coordinates(result.v)
                /\ result.v.value = coords.v

\* here=true with a city argument and a configured default city, the
\* acquisition failed, and the result is None
C1_Witness ==
    /\ entry = "resolve_location" /\ here /\ pc = "done"
    /\ city_arg = Str("London")
    /\ ConfiguredCity = Str("Berlin")
    /\ coords = Ret(PyNone)
    /\ result = Ret(PyNone)

\* C2: with here=false and a non-empty city s, resolve_location returns
\* City(s) and the acquirer is never invoked: no call of the native layer,
\* no request to the IP geolocation endpoint.  The same holds of main's
\* selection.
C2_ExplicitCity ==
    (~here /\ city_arg.t = "str" /\ city_arg.s # "") =>
        /\ AcquirerUntouched
        /\ pc \in {"call", "done", "weather", "finished", "aborted", "raised"}
        /\ pc = "done" =>
              /\ result.k = "ret"
              /\ result.v.t = "Location"
              /\ ~is_coordinates(result.v)
              /\ result.v.value = city_arg
        /\ pc \in {"weather", "finished", "aborted"} => location = city_arg

\* resolve_location has returned City("London")
C2_Witness ==
    /\ entry = "resolve_location" /\ ~here /\ pc = "done"
    /\ city_arg = Str("London")
    /\ result.v.value = Str("London")
    /\ result.v.description = "city London"

\* C3: with here=false, the city argument absent or empty and a non-empty
\* default city d configured, resolve_location returns City(d) and the
\* acquirer is not invoked.
C3_DefaultCity ==
    (/\ entry = "resolve_location" /\ ~here
     /\ (city_arg = PyNone \/ city_arg = Str(""))
     /\ ~NoDefaultCity) =>
        /\ AcquirerUntouched
        /\ pc \in {"call", "done"}
        /\ pc = "done" =>
              /\ result.k = "ret"
              /\ result.v.t = "Location"
              /\ ~is_coordinates(result.v)
              /\ result.v.value = ConfiguredCity

\* An empty city argument, "Berlin" configured, City("Berlin") returned
C3_Witness ==
    /\ entry = "resolve_location" /\ ~here /\ pc = "done"
    /\ city_arg = Str("")
    /\ ConfiguredCity = Str("Berlin")
    /\ result.v.value = Str("Berlin")

\* C4: with here=false, no city argument and no default city configured,
\* resolve_location delegates to the acquirer: it returns Coordinates equal
\* to the acquired pair when the acquisition succeeds, and None when both
\* the native provider and the IP geolocation client report unavailable.
C4_LastResort ==
    (/\ entry = "resolve_location" /\ ~here
     /\ (city_arg = PyNone \/ city_arg = Str(""))
     /\ NoDefaultCity) =>
        /\ pc \in {"ip", "done"} => native_coords # Unset
        /\ pc = "done" =>
              /\ result.k = "ret"
              /\ coords.k = "ret"
              /\ coords.v # PyNone =>
                    /\ result.v.t = "Location"
                    /\ is_coordinates(result.v)
                    /\ result.v.value = coords.v
              /\ (native_coords = Ret(PyNone) /\ ip_coords = Ret(PyNone)) =>
                    result.v = PyNone

\* Absence law: both layers unavailable, no city, no default, result None
C4_Witness ==
    /\ entry = "resolve_location" /\ ~here /\ pc = "done"
    /\ city_arg = PyNone
    /\ NoDefaultCity
    /\ native_coords = Ret(PyNone)
    /\ ip_coords = Ret(PyNone)
    /\ result = Ret(PyNone)

\* C5: in every run of get_current_location the native attempt is fully
\* resolved before any network request is made, and the IP geolocation
\* request is issued if and only if the native provider yielded nothing;
\* when the native provider yields coordinates no request is made at all.
C5_NativeBeforeNetwork ==
    /\ \A i \in 1..Len(events) :
          events[i].call = "requests.get" =>
              /\ \E j \in 1..(i - 1) :
                    /\ events[j].call = "_get_native_location"
                    /\ events[j].ret = PyNone
                    /\ \A n \in AcquirerCalls :
                          n <= j \/ events[n].call \in {"requests.get",
                                                        "_get_ip_location"}
    /\ Calls("requests.get") <= 1
    /\ (response # Unset) <=> (Calls("requests.get") = 1)
    /\ pc = "ip" => (native_coords = Ret(PyNone) /\ response = Unset)
    /\ response # Unset => native_coords = Ret(PyNone)
    /\ (Terminal /\ native_coords = Ret(PyNone)) => response # Unset
    /\ (native_coords # Unset /\ native_coords # Ret(PyNone)) =>
          (response = Unset /\ pc # "ip")

\* The native strategy queried the OS, found no fix, and only then the
\* request went out
C5_Witness ==
    /\ Terminal
    /\ Calls("location") = 2
    /\ native_coords = Ret(PyNone)
    /\ Calls("requests.get") = 1
    /\ response # Unset

\* The answer of the transport is a payload without error flag whose two
\* coordinate fields are numbers
NumericPayload ==
    /\ response # Unset
    /\ response.get_exc = "" /\ ~IsErrorStatus(response.status)
    /\ response.json.k = "ret" /\ response.json.v.t = "dict"
    /\ "error" \notin DOMAIN response.json.v.d
    /\ "latitude" \in DOMAIN response.json.v.d
    /\ "longitude" \in DOMAIN response.json.v.d
    /\ response.json.v.d["latitude"].t = "num"
    /\ response.json.v.d["longitude"].t = "num"

\* The fix the operating system handed to the macOS strategy, if any
MacosFixes ==
    {events[i].ret : i \in {j \in 1..Len(events) :
                              events[j].call = "location" /\ events[j].ret.t = "tuple"}}

\* C6 (fallback law): if the native provider reports unavailable and the IP
\* geolocation client succeeds with (a, b), get_current_location returns
\* exactly (a, b); if the native provider succeeds with (a, b), it returns
\* exactly (a, b) and the IP provider is not consulted.
C6_FallbackLaw ==
    coords # Unset =>
        /\ (native_coords = Ret(PyNone) /\ ip_coords.k = "ret"
            /\ ip_coords.v # PyNone) => coords = ip_coords
        /\ (native_coords = Ret(PyNone) /\ NumericPayload) =>
              coords = Ret(Pair(response.json.v.d["latitude"],
                                response.json.v.d["longitude"]))
        /\ (native_coords.k = "ret" /\ native_coords.v # PyNone) =>
              /\ coords = native_coords
              /\ response = Unset
        /\ \A fix \in MacosFixes : coords = Ret(Pair(fix.lat, fix.lon))

\* Native unavailable, the payload carries 40.71 / -74.01, and that pair is
\* what get_current_location returned
C6_Witness ==
    /\ native_coords = Ret(PyNone)
    /\ NumericPayload
    /\ response.json.v.d["latitude"] = Num(4071)
    /\ response.json.v.d["longitude"] = Num(-7401)
    /\ coords = Ret(Pair(Num(4071), Num(-7401)))

\* C7: for every combination of here, city and default city and every
\* provider outcome, resolve_location ends, and ends with a Location or
\* with None: no exception of a provider crosses resolve_location.
C7_NoExceptionCrosses ==
    entry = "resolve_location" =>
        /\ (pc = "done") <=> (result # Unset)
        /\ pc # "done" => ENABLED Next
        /\ result # Unset =>
              /\ result.k = "ret"
              /\ result.v = PyNone \/ result.v.t = "Location"

\* A native API call raised, the IP payload was no JSON object, and
\* resolve_location returned None
C7_Witness ==
    /\ entry = "resolve_location" /\ pc = "done"
    /\ \E i \in 1..Len(events) : events[i].ret = Raised
    /\ response # Unset /\ response.json = Ret(List(<<>>))
    /\ result = Ret(PyNone)

\* One of the four failure cases of the IP lookup: transport failure, a
\* status code outside 200 to 299, truthy error flag, latitude or longitude
\* missing or null
IpFailureCase ==
    \/ response.get_exc # ""
    \/ response.status < 200 \/ response.status > 299
    \/ /\ response.json.k = "ret" /\ response.json.v.t = "dict"
       /\ \/ /\ "error" \in DOMAIN response.json.v.d
             /\ response.json.v.d["error"] = Bool(TRUE)
          \/ "latitude" \notin DOMAIN response.json.v.d
          \/ "longitude" \notin DOMAIN response.json.v.d
          \/ response.json.v.d["latitude"] = PyNone
          \/ response.json.v.d["longitude"] = PyNone

\* C8: _get_ip_location never raises and returns None on a transport
\* failure, on a non-2xx HTTP status, on a truthy error flag and on a
\* missing or null latitude or longitude; it returns coordinates only when
\* none of these cases applies.
C8_IpLookupAbsorbs ==
    response # Unset =>
        /\ ip_coords.k = "ret"
        /\ IpFailureCase => ip_coords.v = PyNone
        /\ ip_coords.v # PyNone => (ip_coords.v.t = "tuple" /\ ~IpFailureCase)

\* A failure of the native strategy, as the calls show it: a call raised,
\* the service is disabled, permission is denied, there is no fix
NativeFailure ==
    \/ \E i \in 1..Len(events) :
          \/ events[i].ret = Raised /\ events[i].call # "_get_ip_location"
          \/ events[i] = [call |-> "locationServicesEnabled", ret |-> Bool(FALSE)]
          \/ events[i] = [call |-> "RequestPermissions", ret |-> Bool(FALSE)]
          \/ events[i] = [call |-> "GetReport", ret |-> PyNone]
          \/ events[i].call = "gpsd.get_current" /\ events[i].ret # Raised
             /\ events[i].ret.mode < 2
    \/ /\ Calls("authorizationStatus") = 2
       /\ \A i \in 1..Len(events) :
             events[i].call = "authorizationStatus" =>
                 events[i].ret.s \notin Authorized
    \/ /\ Calls("location") = 2
       /\ \A i \in 1..Len(events) :
             events[i].call = "location" => events[i].ret = PyNone

\* C9: _get_native_location never raises to its caller: a failure at any
\* step of the selected strategy (service disabled, permission denied,
\* library absent, no fix, an exception of the strategy) yields None, after
\* which the acquirer proceeds to the IP fallback.
C9_NativeNeverRaises ==
    native_coords # Unset =>
        /\ native_coords.k = "ret"
        /\ NativeFailure =>
              /\ native_coords = Ret(PyNone)
              /\ pc = "ip" \/ response # Unset

\* The strategy method itself raised, the native layer gave None, and the
\* acquirer stands before the IP request
C9_Witness ==
    /\ pc = "ip"
    /\ \E i \in 1..Len(events) :
          events[i].call \in {"macos", "windows", "linux"} /\ events[i].ret = Raised
    /\ native_coords = Ret(PyNone)

\* C10: the configured default city is queried at most once per resolution,
\* and not at all when the here flag is set or a non-empty city argument is
\* given.
C10_DefaultCityQueriedOnce ==
    /\ Calls("get_default_city") <= 1
    /\ (here \/ Truthy(city_arg)) => Calls("get_default_city") = 0

\* A resolution that went through the configuration and then the acquirer
\* has queried the default city exactly once
C10_Witness ==
    /\ Terminal
    /\ coords # Unset
    /\ Calls("get_default_city") = 1

\* Whether the float x lies in [-bound, bound]
InRange(x, bound) ==
    /\ IsFinite(x)
    /\ \/ IsZero(x)
       \/ CmpDecimal(x, Decimal(FALSE, ToString(bound), Len(ToString(bound)))) <= 0

\* C11: every Location resolve_location produces is a City with a non-empty
\* name or Coordinates with latitude in [-90, 90] and longitude in
\* [-180, 180], whatever the providers and the configuration return.
C11_LocationShapes ==
    (entry = "resolve_location" /\ result # Unset /\ result.k = "ret"
     /\ result.v # PyNone) =>
        /\ result.v.t = "Location"
        /\ IF is_coordinates(result.v)
           THEN /\ result.v.value.lat.t = "num" /\ result.v.value.lon.t = "num"
                /\ InRange(result.v.value.lat, 90)
                /\ InRange(result.v.value.lon, 180)
           ELSE /\ result.v.value.t = "str"
                /\ result.v.value.s # ""

\* The fix the OS handed to the running strategy has both coordinates zero
ZeroFixReported ==
    \E i \in 1..Len(events) :
        \/ events[i].call = "location" /\ events[i].ret = Pair(Num(0), Num(0))
        \/ /\ events[i].call = "GetReport"
           /\ events[i].ret = [t |-> "report", Latitude |-> Num(0),
                               Longitude |-> Num(0)]
        \/ /\ events[i].call = "gpsd.get_current"
           /\ events[i].ret # Raised
           /\ events[i].ret.mode >= 2
           /\ events[i].ret.lat = Num(0) /\ events[i].ret.lon = Num(0)

\* C12: a native fix with zero-valued coordinates is "not available" on
\* every platform strategy: the native layer gives None and the acquisition
\* goes on to the IP lookup instead of returning the zero-valued fix.
C12_ZeroFixUnavailable ==
    (native_coords # Unset /\ ZeroFixReported) =>
        /\ native_coords = Ret(PyNone)
        /\ pc = "ip" \/ response # Unset

\* The call made at position i of the run, "" past its end
CallAt(i) == IF i \in 1..Len(events) THEN events[i].call ELSE ""

\* The call at position i returned an authorization status that does not
\* allow positioning
InsufficientAt(i) ==
    /\ CallAt(i) = "authorizationStatus"
    /\ events[i].ret # Raised
    /\ events[i].ret.s \notin {"AuthorizedAlways", "AuthorizedWhenInUse"}

\* The call at position i queried the fix and got none
NoFixAt(i) == CallAt(i) = "location" /\ events[i].ret = PyNone

StrategyCalls(which) ==
    IF which = "macos"
    THEN {"macos", "import CoreLocation", "CLLocationManager.init",
          "locationServicesEnabled", "authorizationStatus",
          "requestWhenInUseAuthorization", "sleep(1)", "setDesiredAccuracy_",
          "location", "requestLocation", "sleep(2)"}
    ELSE IF which = "windows"
    THEN {"windows", "import pythoncom", "CoInitialize", "Dispatch",
          "RequestPermissions", "GetReport", "CoUninitialize"}
    ELSE {"linux", "import gpsd", "gpsd.connect", "gpsd.get_current"}

\* The platform strategies that were invoked in the run so far
InvokedStrategies ==
    {which \in {"macos", "windows", "linux"} :
        \E i \in 1..Len(events) : events[i].call \in StrategyCalls(which)}

\* The strategy that matches the running platform, as a set
MatchingStrategy ==
    IF platform = "darwin" THEN {"macos"}
    ELSE IF platform = "win32" THEN {"windows"}
    ELSE IF Len(platform) >= 5 /\ SubSeq(platform, 1, 5) = "linux" THEN {"linux"}
    ELSE {}

\* C14: per call of _get_native_location at most one platform strategy is
\* invoked, the one matching the running platform (darwin: macOS, win32:
\* Windows, linux*: Linux); on any other platform none is invoked and the
\* result is "not available".
C14_Dispatch ==
    /\ Cardinality(InvokedStrategies) <= 1
    /\ Calls("_get_native_location") <= 1
    /\ native_coords = Unset => InvokedStrategies = {}
    /\ native_coords # Unset =>
          /\ InvokedStrategies = MatchingStrategy
          /\ MatchingStrategy = {} => native_coords = Ret(PyNone)

\* On the platform "linux2" the Linux strategy ran and gave a fix
C14_Witness ==
    /\ platform = "linux2"
    /\ InvokedStrategies = {"linux"}
    /\ Calls("gpsd.get_current") = 1
    /\ native_coords = Ret(Pair(Num(5151), Num(-13)))

\* The requests sent so far to the IP geolocation endpoint
IpRequestsSent ==
    {i \in 1..Len(requests_sent) : requests_sent[i].url = "https://ipapi.co/json/"}

\* C15: each IP geolocation lookup issues exactly one GET request to the
\* fixed endpoint https://ipapi.co/json/, with the timeout of 10 seconds,
\* the header User-Agent: weather-cli/1.0 and no query parameters.
C15_IpRequest ==
    /\ Cardinality(IpRequestsSent) = Calls("_get_ip_location") + Len(info_results)
    /\ (pc \in {"call", "native", "ip"}) => Len(requests_sent) = 0
    /\ ip_coords # Unset => Cardinality(IpRequestsSent) = 1
    /\ \A i \in IpRequestsSent :
          requests_sent[i] =
              [method |-> "GET",
               url |-> "https://ipapi.co/json/",
               params |-> [t |-> "dict", d |-> <<>>, keys |-> <<>>],
               headers |-> [t |-> "dict",
                            d |-> [h \in {"User-Agent"} |->
                                      [t |-> "str", s |-> "weather-cli/1.0"]],
                            keys |-> <<"User-Agent">>],
               timeout |-> [t |-> "int", i |-> 10]]

\* The lookup was made, the request timed out, and one request is on record
C15_Witness ==
    /\ ip_coords = Ret(PyNone)
    /\ response # Unset /\ response.get_exc = "Timeout"
    /\ Len(requests_sent) = 1
    /\ requests_sent[1].timeout = PyInt(10)

\* C16: every network request the program issues, the IP geolocation
\* request and the weather API request alike, carries an explicit timeout
\* of 10 seconds.
C16_EveryRequestTimeout ==
    \A i \in 1..Len(requests_sent) :
        requests_sent[i].timeout = [t |-> "int", i |-> 10]

\* The text sub occurs in the text str
Contains(str, sub) ==
    \E i \in 1..(Len(str) - Len(sub) + 1) : SubSeq(str, i, i + Len(sub) - 1) = sub

\* Some line main has written holds the text sub
Printed(sub) == \E i \in 1..Len(output) : Contains(output[i], sub)

\* The weather service was neither constructed nor asked
NoWeatherCall ==
    /\ weather_service = Unset
    /\ weather_response = Unset
    /\ \A i \in 1..Len(requests_sent) :
          requests_sent[i].url # "https://api.openweathermap.org/data/2.5/weather"

\* C19: when no location can be resolved (with --here, or with neither
\* --city nor a default city), the CLI prints the message "Could not
\* determine location" together with the hint to use --city, exits with a
\* non-zero code, and never calls the weather service.
C19_NoLocationMessage ==
    (entry = "main" /\ coords = Ret(PyNone)) =>
        /\ pc = "aborted"
        /\ Printed("Could not determine location")
        /\ Printed("--city")
        /\ exit_code # Unset /\ exit_code.i # 0
        /\ NoWeatherCall
        /\ ~ENABLED main_weather

\* The API key the configuration file states, read off the loaded data
\* directly: PyNone when there is none
ConfiguredKey ==
    IF /\ "api" \in DOMAIN config_data.d
       /\ config_data.d["api"].t = "dict"
       /\ "openweather" \in DOMAIN config_data.d["api"].d
       /\ config_data.d["api"].d["openweather"].t = "dict"
       /\ "key" \in DOMAIN config_data.d["api"].d["openweather"].d
    THEN config_data.d["api"].d["openweather"].d["key"]
    ELSE PyNone

\* Neither the environment variable nor the configuration file gives a key
NoKeyConfigured ==
    /\ ConfiguredKey = PyNone
    /\ \E i \in 1..Len(events) :
          /\ events[i].call = "os.getenv"
          /\ events[i].ret \in {PyNone, Str("")}

\* C20: when a location is resolved but no OpenWeather API key is
\* configured (neither environment variable nor configuration file), the CLI
\* prints "Error: OpenWeather API key not found", exits with a non-zero
\* code, and neither constructs the weather service nor issues a weather
\* request.
C20_MissingApiKey ==
    (entry = "main" /\ NoKeyConfigured /\ location # PyNone) =>
        /\ pc \in {"weather", "aborted"}
        /\ NoWeatherCall
        /\ pc = "aborted" =>
              /\ Printed("Error: OpenWeather API key not found")
              /\ exit_code # Unset /\ exit_code.i # 0

\* A location acquired from the IP lookup, no key anywhere, and the CLI has
\* stopped with the message
C20_Witness ==
    /\ entry = "main" /\ NoKeyConfigured /\ pc = "aborted"
    /\ location = Pair(Num(4071), Num(-7401))
    /\ output[1] = "Error: OpenWeather API key not found."
    /\ exit_code = PyInt(1)

\* The request of get_location_info or its payload failed: transport
\* failure, HTTP error status, unparsable body, a body that is no JSON
\* object, or an error flag
InfoFailure(resp) ==
    \/ resp.get_exc # ""
    \/ IsErrorStatus(resp.status)
    \/ resp.json.k = "raise"
    \/ resp.json.v.t # "dict"
    \/ /\ "error" \in DOMAIN resp.json.v.d
       /\ resp.json.v.d["error"] = Bool(TRUE)

\* C17: get_location_info never raises: for any failure of the request or
\* of the payload (transport failure, non-2xx status, error flag, unparsable
\* or ill-shaped body) it returns None.
C17_InfoNeverRaises ==
    \A i \in 1..Len(info_results) :
        /\ info_results[i].result.k = "ret"
        /\ InfoFailure(info_results[i].response) =>
              info_results[i].result = Ret(PyNone)

\* The value get_location_info is to report for the payload field named
\* field of payload
Reported(payload, field) ==
    IF field \in DOMAIN payload THEN payload[field]
    ELSE [t |-> "str", s |-> "Unknown"]

\* C18: for a successful payload (no error flag) get_location_info returns
\* a map with exactly the keys city, region, country, country_code and
\* timezone, holding the payload's city, region, country_name, country and
\* timezone, or "Unknown" for a missing field; repeated calls against an
\* identical payload return identical maps.
C18_InfoFields ==
    \A i \in 1..Len(info_results) :
        ~InfoFailure(info_results[i].response) =>
            /\ info_results[i].result.k = "ret"
            /\ info_results[i].result.v.t = "dict"
            /\ DOMAIN info_results[i].result.v.d =
                  {"city", "region", "country", "country_code", "timezone"}
            /\ \A pair \in {<<"city", "city">>, <<"region", "region">>,
                            <<"country", "country_name">>,
                            <<"country_code", "country">>,
                            <<"timezone", "timezone">>} :
                  info_results[i].result.v.d[pair[1]] =
                      Reported(info_results[i].response.json.v.d, pair[2])
            /\ \A j \in 1..Len(info_results) :
                  info_results[j].response = info_results[i].response =>
                      info_results[j].result = info_results[i].result

\* Two calls against a payload with country name and code but no city and
\* no time zone
C18_Witness ==
    /\ Len(info_results) = 2
    /\ info_results[1].response.json =
          Ret(Dict(<<<<"country", Str("DE")>>, <<"country_name", Str("Germany")>>>>))
    /\ info_results[2].result =
          Ret(Dict(<<<<"city", Str("Unknown")>>, <<"region", Str("Unknown")>>,
                     <<"country", Str("Germany")>>, <<"country_code", Str("DE")>>,
                     <<"timezone", Str("Unknown")>>>>))

\* A direct call of the operation op has been made, and it is the last one
Called(op) == calls_made > 0 /\ last_call.op = op

\* The key the configuration data states for a service, read off the data
\* directly: PyNone when there is none
FileKey(data, service) ==
    IF /\ "api" \in DOMAIN data.d
       /\ data.d["api"].t = "dict"
       /\ service \in DOMAIN data.d["api"].d
       /\ data.d["api"].d[service].t = "dict"
       /\ "key" \in DOMAIN data.d["api"].d[service].d
    THEN data.d["api"].d[service].d["key"]
    ELSE PyNone

\* The environment variable mapped to the service is set to a non-empty value
EnvKeySet(service, environ) ==
    /\ service = "openweather"
    /\ "OPENWEATHER_API_KEY" \in DOMAIN environ
    /\ environ["OPENWEATHER_API_KEY"] # Str("")

\* C21: get_api_key(service) returns the environment variable's value
\* whenever that variable is set to a non-empty value, regardless of the
\* configuration file; otherwise it returns the configuration value at
\* api.<service>.key, and None when neither exists; for a service with no
\* mapped environment variable it falls back to the configuration file.
C21_ApiKeyPrecedence ==
    Called("get_api_key") =>
        /\ last_call.out.k = "ret"
        /\ IF EnvKeySet(last_call.service, last_call.environ)
           THEN last_call.out.v = last_call.environ["OPENWEATHER_API_KEY"]
           ELSE last_call.out.v = FileKey(last_call.data, last_call.service)

\* The environment and the file both state a key for openweather, and the
\* call returned the one of the environment
C21_Witness ==
    /\ Called("get_api_key")
    /\ last_call.service = "openweather"
    /\ EnvKeySet(last_call.service, last_call.environ)
    /\ FileKey(last_call.data, "openweather") = Str("file_key")
    /\ last_call.out = Ret(Str("env_key"))

\* C22: get_weather called on a service whose API key is None or empty
\* raises ValueError for every location and issues no network request; the
\* key check precedes the request on every path.
C22_KeyCheckFirst ==
    (Called("get_weather") /\ last_call.api_key \in {PyNone, Str("")}) =>
        /\ last_call.out = Raise("ValueError")
        /\ last_call.requests = <<>>

\* A service without a key was asked for the weather at coordinates, the
\* transport being ready to answer 200, and raised ValueError
C22_Witness ==
    /\ Called("get_weather")
    /\ last_call.api_key = PyNone
    /\ last_call.location = Pair(Num(4071), Num(-7401))
    /\ last_call.response.status = 200
    /\ last_call.out = Raise("ValueError")
    /\ last_call.requests = <<>>

\* The location passed to get_weather is coordinates: a (lat, lon) tuple, or
\* a Location made by from_coordinates
CoordinatesGiven(loc) ==
    loc.t = "tuple" \/ (loc.t = "Location" /\ is_coordinates(loc))

\* C25: the weather request built by get_weather carries the parameters lat
\* and lon and no q when the location is coordinates, and q and neither lat
\* nor lon when the location is a city; in both cases it carries appid equal
\* to the API key and units=metric.
C25_WeatherParams ==
    Called("get_weather") =>
        \A i \in 1..Len(last_call.requests) :
            /\ last_call.requests[i].params.t = "dict"
            /\ DOMAIN last_call.requests[i].params.d =
                  IF CoordinatesGiven(last_call.location)
                  THEN {"lat", "lon", "appid", "units"}
                  ELSE {"q", "appid", "units"}
            /\ last_call.requests[i].params.d["appid"] = last_call.api_key
            /\ last_call.requests[i].params.d["units"] = Str("metric")

\* The art lines the class body defines for an icon code
DefinedArt(icon) == IF icon \in DOMAIN ArtTable THEN ArtTable[icon] ELSE DefaultArt

\* C23: after any sequence of get_weather_art and format_weather_with_art
\* calls, get_weather_art(icon) returns exactly the 5 art lines defined for
\* that icon for every known icon code, and the 5-line default art for every
\* unknown code; formatting a text never changes the art table.
C23_ArtTableKept ==
    /\ \A icon \in Icons :
          /\ get_weather_art(_ASCII_ART, _DEFAULT_ART, icon) = DefinedArt(icon)
          /\ Len(get_weather_art(_ASCII_ART, _DEFAULT_ART, icon)) = 5
    /\ Called("get_weather_art") =>
          last_call.out = Ret(DefinedArt(last_call.weather_icon))
    /\ _ASCII_ART = ArtTable

\* str ends with suffix
EndsWith(str, suffix) ==
    /\ Len(str) >= Len(suffix)
    /\ SubSeq(str, Len(str) - Len(suffix) + 1, Len(str)) = suffix

\* The art line with index i of an icon, as the class body defines it; none
\* beyond the fifth
DefinedArtLine(icon, i) ==
    IF i <= Len(DefinedArt(icon)) THEN DefinedArt(icon)[i] ELSE ""

\* The lines out has, and each non-empty line of the text stands in the line
\* of out with its index, left of the art line with that index
TextBesideArt(icon, text_lines, out_lines) ==
    \A i \in 1..Len(text_lines) :
        text_lines[i] # "" =>
            /\ i <= Len(out_lines)
            /\ StartsWith(out_lines[i], text_lines[i])
            /\ EndsWith(out_lines[i], "\t" \o DefinedArtLine(icon, i))

\* C26: for a known icon and a weather text of n lines (n >= 1 after
\* stripping), format_weather_with_art returns exactly max(5, n) lines,
\* independently of which calls were made before; every non-empty input text
\* line appears in the output, left of the art line of the same index.
C26_FormatLineCount ==
    (Called("format_weather_with_art")
        /\ last_call.weather_icon \in DOMAIN ArtTable) =>
        /\ last_call.out.k = "ret"
        /\ Len(SplitLines(last_call.out.v))
             = Max(5, Len(TextLines(last_call.weather_text)))
        /\ TextBesideArt(last_call.weather_icon,
                         TextLines(last_call.weather_text),
                         SplitLines(last_call.out.v))

\* C24: one CLI invocation performs at most one location acquisition, and
\* one acquisition attempts the native provider exactly once and the IP
\* geolocation request at most once; the acquirer never re-attempts a layer
\* after it reported "not available" and no operation is restarted
\* automatically.
C24_OneAcquisition ==
    entry \in {"main", "resolve_location"} =>
        /\ Calls("_get_native_location") <= 1
        /\ Calls("_get_ip_location") <= 1
        /\ Calls("requests.get") <= 1
        /\ Cardinality(IpRequestsSent) <= 1
        /\ Cardinality(InvokedStrategies) <= 1
        /\ coords # Unset => Calls("_get_native_location") = 1
        /\ Calls("_get_ip_location") = 1 => Calls("_get_native_location") = 1
        /\ pc \in {"weather", "finished", "aborted", "done"} =>
              ~ENABLED get_current_location_native
              /\ ~ENABLED get_current_location_ip

\* The CLI has stopped after both layers reported "not available", each
\* attempted once
C24_Witness ==
    /\ entry = "main" /\ pc = "aborted"
    /\ coords = Ret(PyNone)
    /\ native_coords = Ret(PyNone) /\ ip_coords = Ret(PyNone)
    /\ Calls("_get_native_location") = 1
    /\ Calls("_get_ip_location") = 1
    /\ Cardinality(IpRequestsSent) = 1

\* The calls of CoInitialize that returned, and the calls of CoUninitialize
ComInitialised ==
    {i \in 1..Len(events) :
        events[i].call = "CoInitialize" /\ events[i].ret # Raised}
ComUninitialised == {i \in 1..Len(events) : events[i].call = "CoUninitialize"}

\* The return of the native layer that follows position i of the run
NativeReturnAfter(i) ==
    {j \in (i + 1)..Len(events) : events[j].call = "_get_native_location"}

\* C27: in the Windows strategy every successful COM initialisation is
\* followed by exactly one COM uninitialisation before the strategy returns,
\* on every path: fix returned, permission denied, no report, missing
\* latitude/longitude, and an exception raised while querying.
C27_ComReleased ==
    /\ Cardinality(ComUninitialised) = Cardinality(ComInitialised)
    /\ \A i \in ComInitialised :
          /\ Cardinality({j \in ComUninitialised : j > i}) = 1
          /\ \A r \in NativeReturnAfter(i) :
                \E j \in ComUninitialised : i < j /\ j < r
    /\ \A j \in ComUninitialised : \E i \in ComInitialised : i < j

\* COM was initialised, GetReport raised, and COM was uninitialised before
\* the strategy returned
C27_Witness ==
    /\ ComInitialised # {}
    /\ \E g \in 1..Len(events) :
          /\ events[g].call = "GetReport" /\ events[g].ret = Raised
          /\ \E j \in ComUninitialised : j = g + 1
    /\ native_coords = Ret(PyNone)

\* The answers of authorizationStatus() that grant the use of the location
Granted(ret) == ret \in {Str("AuthorizedAlways"), Str("AuthorizedWhenInUse")}

\* The checks of the authorization status before position i of the run
StatusChecksBefore(i) ==
    {j \in 1..(i - 1) : events[j].call = "authorizationStatus"}

\* locationServicesEnabled() has answered True before position i
ServicesEnabledBefore(i) ==
    \E j \in 1..(i - 1) :
        events[j].call = "locationServicesEnabled" /\ events[j].ret = Bool(TRUE)

\* C28: the macOS strategy never reads a location fix and never requests a
\* fresh fix unless location services are enabled and the authorization
\* status, at first check or at the single recheck, is authorized-always or
\* authorized-when-in-use; and it never requests permission when location
\* services are disabled or authorization is already granted.
C28_MacosAuthorization ==
    \A i \in 1..Len(events) :
        /\ events[i].call \in {"location", "requestLocation"} =>
              /\ ServicesEnabledBefore(i)
              /\ Cardinality(StatusChecksBefore(i)) \in {1, 2}
              /\ \E j \in StatusChecksBefore(i) :
                    /\ Granted(events[j].ret)
                    /\ \A k \in StatusChecksBefore(i) : k <= j
        /\ events[i].call = "requestWhenInUseAuthorization" =>
              /\ ServicesEnabledBefore(i)
              /\ Cardinality(StatusChecksBefore(i)) = 1
              /\ \A j \in StatusChecksBefore(i) : ~Granted(events[j].ret)

\* Authorization was denied at the first check, requested, granted at the
\* recheck, and the fix was read
C28_Witness ==
    \E i, j \in 1..Len(events) :
        /\ i < j
        /\ events[i].call = "requestWhenInUseAuthorization"
        /\ events[j].call = "location" /\ events[j].ret = Pair(Num(3777), Num(-12242))
        /\ Cardinality(StatusChecksBefore(j)) = 2

\* The formatted weather report has been written
ReportPrinted ==
    \E i \in 1..Len(output) : StartsWith(output[i], "Weather in ")

\* An error message has been written
ErrorPrinted ==
    \E i \in 1..Len(output) :
        StartsWith(output[i], "Error: ") \/ StartsWith(output[i], "Unexpected error: ")

\* The message main writes for each failure of the weather lookup, given
\* the answer of the transport
WeatherFailureReported ==
    IF weather_response.get_exc # "" /\ weather_response.exc_response # PyNone
    THEN Printed("Error: API request failed with status ")
    ELSE IF weather_response.get_exc # ""
    THEN Printed("Error: Network request failed for ")
    ELSE IF weather_response.status = 404
    THEN Printed("Error: City '") \/ Printed("Error: No weather data found for coordinates ")
    ELSE IF weather_response.status = 401 THEN Printed("Error: Invalid API key.")
    ELSE IF weather_response.status >= 400
    THEN Printed("Error: API request failed with status ")
    ELSE IF weather_response.json = Raise("json.JSONDecodeError")
    THEN Printed("Error: json.JSONDecodeError")
    ELSE IF weather_response.json = Raise("requests.JSONDecodeError")
    THEN Printed("Error: Network request failed for ")
    ELSE Printed("Unexpected error: ")

\* C29: the CLI exits with code 0 if and only if the formatted weather
\* report was printed; every failure (location not resolved, missing API key,
\* HTTP 404/401/other status, network error without response, ValueError,
\* any other exception from the weather service) prints an error message and
\* ends in an abort with a non-zero code, and no exception escapes main.
C29_ExitCodes ==
    entry = "main" =>
        /\ exit_code = PyInt(0) <=> ReportPrinted
        /\ exit_code # Unset <=> pc \in {"finished", "aborted"}
        /\ pc = "finished" <=> ReportPrinted
        /\ pc = "aborted" =>
              /\ exit_code # Unset /\ exit_code.i # 0
              /\ ErrorPrinted
              /\ coords = Ret(PyNone) => Printed("Error: Could not determine")
              /\ (location # PyNone /\ ~Truthy(api_key)) =>
                    Printed("Error: OpenWeather API key not found.")
              /\ weather_response # Unset => WeatherFailureReported
        /\ result = Unset /\ pc # "raised"

\* Whether LocationResolver.resolve_location asks the acquirer, for the
\* arguments and the configuration data given
ResolverAcquires(here_flag, city_name, data) ==
    \/ resolve_location_branch(here_flag, city_name) = "here"
    \/ /\ resolve_location_branch(here_flag, city_name) = "default"
       /\ ~Truthy(get_default_city(data))

\* What LocationResolver.resolve_location returns for the arguments and the
\* configuration data given, c being the acquirer's outcome where it is asked
ResolverReturns(here_flag, city_name, data, c) ==
    IF ResolverAcquires(here_flag, city_name, data)
    THEN _get_current_location(c)
    ELSE IF resolve_location_branch(here_flag, city_name) = "city"
    THEN Ret(from_city(city_name))
    ELSE Ret(from_city(get_default_city(data)))

\* The selection of the location is over: the resolver has returned, or main
\* has its location or has stopped
Selected ==
    \/ entry = "resolve_location" /\ pc = "done"
    \/ entry = "main" /\ pc \in {"weather", "finished", "aborted"}

\* main holds the value of the Location r, or has stopped for want of one
MainHolds(r) ==
    IF r.k = "raise" THEN result = r
    ELSE IF r.v = PyNone THEN pc = "aborted" /\ location = PyNone
    ELSE location = r.v.value

\* C30: for every combination of the here flag, the city argument, the
\* configured default city and the acquirer's outcome, the location the
\* CLI's inline selection passes to the weather service (city string or
\* coordinate pair, or abort) equals the value of the Location that
\* LocationResolver.resolve_location returns for the same inputs (City name,
\* Coordinates, or None), and both invoke the acquirer in exactly the same
\* cases.
C30_InlineSelectionIsResolver ==
    Selected =>
        /\ coords # Unset <=> ResolverAcquires(here, city_arg, config_data)
        /\ coords = Unset => AcquirerCalls = {}
        /\ coords # Unset => Calls("_get_native_location") = 1
        /\ entry = "resolve_location" =>
              result = ResolverReturns(here, city_arg, config_data, coords)
        /\ entry = "main" =>
              MainHolds(ResolverReturns(here, city_arg, config_data, coords))

\* The flag and a city were both given; main holds the acquired
\* coordinates, as the resolver returns them
C30_Witness ==
    /\ entry = "main" /\ pc = "weather"
    /\ here /\ city_arg = Str("London")
    /\ coords = Ret(Pair(Num(4071), Num(-7401)))
    /\ location = Pair(Num(4071), Num(-7401))
    /\ ResolverReturns(here, city_arg, config_data, coords)
         = Ret(from_coordinates(Num(4071), Num(-7401)))

====
